---- MODULE Spec2Model ----
(***************************************************************************)
(* Arbitrage detection and position lifecycle engine                       *)
(* (warrenjfeng/arbitrage-hunter).                                         *)
(*                                                                         *)
(* Fourteen specifications share this module, its variables and Init:      *)
(*   Spec       the position store driven by PositionManager's operations  *)
(*              (position_manager.py) under a wall clock;                  *)
(*   SpecArb    single calls of the pure functions of arbitrage.py         *)
(*              (calculate_arbitrage, find_arbitrage_opportunities) on     *)
(*              inputs drawn from bounded sets;                            *)
(*   SpecStore  the opportunity store of arbitrage.py                      *)
(*              (store_arbitrage_opportunities, get_active_opportunities)  *)
(*              under a wall clock;                                        *)
(*   SpecFetch  calls of ArbitrageAgent._fetch_with_retry (agent.py);      *)
(*   SpecPoll   single calls of ArbitrageAgent.get_adaptive_poll_interval; *)
(*   SpecAgent  the coordinator loop ArbitrageAgent.run with run_once,     *)
(*              over stops and restarts of the process;                    *)
(*   SpecMonitor  monitor_positions run by two processes, step by step;    *)
(*   SpecExpiry the position store fed with opportunities whose            *)
(*              expiration date has passed;                                *)
(*   SpecPerf   calculate_historical_performance over a growing store;     *)
(*   SpecFlood  cycles of run_once, live and demo, with more opportunities *)
(*              than the caps on new positions;                            *)
(*   SpecFine   ArbitrageAgent.detect_arbitrage on prices fine enough for  *)
(*              a profit percentage to round to 0;                         *)
(*   SpecStoreSteps  store_arbitrage_opportunities statement by statement; *)
(*   SpecConfirm  simulate_order_placement statement by statement, with    *)
(*              monitor_positions running between its read and its write;  *)
(*   SpecFaults live cycles of run_once in which inserts of positions      *)
(*              fail.                                                      *)
(*                                                                         *)
(* Units.  Time is in seconds since the start of the run.  Prices are      *)
(* integers in units of 1/PriceScale (0.58 is 58 at PriceScale 100).       *)
(* Money rounded by round(x, 2) is in cents, percentages rounded by        *)
(* round(x, 4) are in units of 0.0001 percent.  The code computes in       *)
(* binary floating point; the model computes the exact rational value and  *)
(* lets a round() whose exact argument lies half way between two           *)
(* neighbours return either neighbour, and lets a comparison of two        *)
(* exactly equal quantities computed from different operands go either     *)
(* way.                                                                    *)
(***************************************************************************)
EXTENDS Integers, Sequences, FiniteSets, TLC

VARIABLES
    positions,   \* db.positions: the stored position documents, in insertion order
    task_log,    \* db.task_log: the appended task-log documents
    now,         \* datetime.utcnow(), seconds
    ret,         \* the last PositionManager call: its name, argument and return value
    call,        \* the last call of a function: name, inputs, result
    arbitrage_opportunities,  \* db.arbitrage_opportunities, in insertion order
    uuid,        \* the number of uuid.uuid4() values drawn so far
    retry_delay, \* ArbitrageAgent.retry_delay
    loop,        \* ArbitrageAgent.run: running, iteration, poll_interval, how it ended
    market_type_performance,  \* db.market_type_performance
    market_prices,            \* db.market_prices
    monitors     \* the monitor_positions invocations in progress, per process

posVars == <<positions, task_log, now, ret>>
arbVars == <<call>>
storeVars == <<arbitrage_opportunities, uuid>>
agentVars == <<retry_delay, loop, market_type_performance, market_prices>>
monVars == <<monitors>>
vars == <<positions, task_log, now, ret, call, arbitrage_opportunities, uuid, retry_delay, loop, market_type_performance, market_prices, monitors>>

----------------------------------------------------------------------------
(* Bounds of the model *)

MaxPositions == 2      \* positions created in one run
MaxLog == 5            \* task-log entries in one run
MaxSlack == 1          \* seconds the clock may run beyond each day mark
PriceScale == 100      \* price resolution: a price p stands for p / PriceScale
MaxQuotes == 2         \* quotes per venue in one call of find_arbitrage_opportunities

(* Program constants *)

DefaultExpiryDays == 30        \* timedelta(days=30)
TotalInvestmentDefault == 100  \* total_investment: float = 100.0

FreshMinutes == 5               \* timedelta(minutes=5)
RetryDelayInitial == 1         \* self.retry_delay = 1
MaxRetriesDefault == 5         \* self.max_retries = 5
POLL_INTERVAL_SECONDS == 60    \* config.POLL_INTERVAL_SECONDS
MinPollSeconds == 30           \* max(30, POLL_INTERVAL_SECONDS // 2)

SecondsPerDay == 24 * 60 * 60
FreshSeconds == FreshMinutes * 60

----------------------------------------------------------------------------
(* Optional values: None is the empty sequence, a present value v is <<v>> *)

None == <<>>
Some(v) == <<v>>
IsNone(o) == o = <<>>
Val(o) == o[1]

----------------------------------------------------------------------------
(* models.py *)

create_task_log_doc(action, status) ==
    [action |-> action, status |-> status]

create_position_doc(position_id, opportunity, target_profit, expiration_date, market_type, t) ==
    [ position_id     |-> position_id,
      event_name      |-> opportunity.event_name,
      platform_a      |-> opportunity.platform_a,
      platform_b      |-> opportunity.platform_b,
      amount_bet_a    |-> opportunity.bet_amount_a,
      amount_bet_b    |-> opportunity.bet_amount_b,
      entry_price_a   |-> opportunity.platform_a_price,
      entry_price_b   |-> opportunity.platform_b_price,
      target_profit   |-> target_profit,
      expiration_date |-> expiration_date,
      market_type     |-> market_type,
      state           |-> "watching",
      days_held       |-> 0,
      created_at      |-> t,
      last_checked    |-> t,
      actual_profit   |-> None,
      resolved_at     |-> None ]

----------------------------------------------------------------------------
(* arbitrage.py: calculate_arbitrage *)

(* The outcome of a call: an exception, or a returned value (None or <<v>>). *)
Raised == [raised |-> TRUE, value |-> None]
Returned(v) == [raised |-> FALSE, value |-> v]

(* round(num / den, k) scaled to an integer, for num >= 0 and den > 0: the
   nearest integer to num / den, and either neighbour when num / den lies half
   way in exact arithmetic (the float the code rounds lies on one side). *)
RoundSet(num, den) ==
    LET q == num \div den
        r == num % den
    IN IF 2 * r < den THEN {q}
       ELSE IF 2 * r > den THEN {q + 1}
       ELSE {q, q + 1}

(* Mutant: stakes proportional to the prices but not divided by the combined
   price. *)
Allocation_raw_stakes(yes_price, no_price, total_investment) ==
    LET combined_prob == yes_price + no_price IN
    { [ platform_a_outcome   |-> "yes",
        platform_a_price     |-> yes_price,
        platform_b_outcome   |-> "no",
        platform_b_price     |-> no_price,
        bet_amount_a         |-> bet_yes,
        bet_amount_b         |-> bet_no,
        total_investment     |-> total_investment,
        guaranteed_payout    |-> payout,
        profit               |-> profit,
        profit_percentage    |-> profit_pct,
        combined_probability |-> combined ] :
      bet_yes \in RoundSet(100 * total_investment * yes_price, PriceScale),
      bet_no \in RoundSet(100 * total_investment * no_price, PriceScale),
      payout \in RoundSet(100 * total_investment * PriceScale, combined_prob),
      profit \in RoundSet(100 * total_investment * (PriceScale - combined_prob),
                          combined_prob),
      profit_pct \in RoundSet(1000000 * (PriceScale - combined_prob), combined_prob),
      combined \in RoundSet(10000 * combined_prob, PriceScale) }

(* The dictionaries calculate_arbitrage can return for the direction that buys
   yes at yes_price and no at no_price, combined < 1: stakes, payout and
   profit in cents, profit_percentage in 0.0001 percent, combined_probability
   in 0.0001. *)
Allocation(yes_price, no_price, total_investment) ==
    LET combined_prob == yes_price + no_price IN
    { [ platform_a_outcome   |-> "yes",
        platform_a_price     |-> yes_price,
        platform_b_outcome   |-> "no",
        platform_b_price     |-> no_price,
        bet_amount_a         |-> bet_yes,
        bet_amount_b         |-> bet_no,
        total_investment     |-> total_investment,
        guaranteed_payout    |-> payout,
        profit               |-> profit,
        profit_percentage    |-> profit_pct,
        combined_probability |-> combined ] :
      bet_yes \in RoundSet(100 * total_investment * yes_price, combined_prob),
      bet_no \in RoundSet(100 * total_investment * no_price, combined_prob),
      payout \in RoundSet(100 * total_investment * PriceScale, combined_prob),
      profit \in RoundSet(100 * total_investment * (PriceScale - combined_prob),
                          combined_prob),
      profit_pct \in RoundSet(1000000 * (PriceScale - combined_prob), combined_prob),
      combined \in RoundSet(10000 * combined_prob, PriceScale) }

(* Mutant: combined_prob <= 1.0 *)
IsProfitable_inclusive(combined_prob) == combined_prob <= PriceScale

(* combined_prob < 1.0 *)
IsProfitable(combined_prob) == combined_prob < PriceScale

(* The division bet / yes_price (and by combined_prob) of a profitable
   direction raises ZeroDivisionError when the yes price is 0. *)
DivisionByZero(yes_price, no_price) ==
    IsProfitable(yes_price + no_price) /\ yes_price = 0

(* profit_pct_1 > profit_pct_2 for two profitable directions: the lower
   combined price has the higher percentage; with equal combined prices the
   two floats are equal when both directions have the same operands, and may
   differ in the last bit either way when they do not. *)
FirstIsBetter(yes_price_a, no_price_b, yes_price_b, no_price_a) ==
    LET c1 == yes_price_a + no_price_b
        c2 == yes_price_b + no_price_a
    IN IF c1 # c2 THEN {c1 < c2}
       ELSE IF yes_price_a = yes_price_b /\ no_price_b = no_price_a THEN {FALSE}
       ELSE {TRUE, FALSE}

(* The set of outcomes of calculate_arbitrage, total_investment > 0. *)
calculate_arbitrage(yes_price_a, no_price_b, yes_price_b, no_price_a, total_investment) ==
    LET combined_prob_1 == yes_price_a + no_price_b
        combined_prob_2 == yes_price_b + no_price_a
        first == { Returned(Some(d)) :
                     d \in Allocation(yes_price_a, no_price_b, total_investment) }
        second == { Returned(Some(d)) :
                      d \in Allocation(yes_price_b, no_price_a, total_investment) }
    IN IF DivisionByZero(yes_price_a, no_price_b) THEN {Raised}
       ELSE IF DivisionByZero(yes_price_b, no_price_a) THEN {Raised}
       ELSE IF IsProfitable(combined_prob_1) /\ ~IsProfitable(combined_prob_2)
            THEN first
       ELSE IF IsProfitable(combined_prob_1)
            THEN UNION { IF better THEN first ELSE second :
                           better \in FirstIsBetter(yes_price_a, no_price_b,
                                                    yes_price_b, no_price_a) }
       ELSE IF IsProfitable(combined_prob_2) THEN second
       ELSE {Returned(None)}

----------------------------------------------------------------------------
(* arbitrage.py: find_arbitrage_opportunities *)

(* An event name is a sequence of characters, each a one-character string;
   the typographic quotes U+2018, U+2019, U+201C and U+201D are written
   "LSQUO", "RSQUO", "LDQUO" and "RDQUO". *)
UpperChars ==
    << "A", "B", "C", "D", "E", "F", "G", "H", "I", "J", "K", "L", "M",
       "N", "O", "P", "Q", "R", "S", "T", "U", "V", "W", "X", "Y", "Z" >>

LowerChars ==
    << "a", "b", "c", "d", "e", "f", "g", "h", "i", "j", "k", "l", "m",
       "n", "o", "p", "q", "r", "s", "t", "u", "v", "w", "x", "y", "z" >>

(* The characters str.strip() removes, among those the model uses. *)
Whitespace == {" ", "\t", "\n", "\r"}

(* str.lower() *)
LowerChar(c) ==
    IF \E k \in DOMAIN UpperChars : UpperChars[k] = c
    THEN LowerChars[CHOOSE k \in DOMAIN UpperChars : UpperChars[k] = c]
    ELSE c

Lower(name) == [k \in DOMAIN name |-> LowerChar(name[k])]

(* str.strip() *)
RECURSIVE LStrip(_)
LStrip(name) ==
    IF name # <<>> /\ Head(name) \in Whitespace THEN LStrip(Tail(name)) ELSE name

RECURSIVE RStrip(_)
RStrip(name) ==
    IF name # <<>> /\ name[Len(name)] \in Whitespace
    THEN RStrip(SubSeq(name, 1, Len(name) - 1))
    ELSE name

Strip(name) == RStrip(LStrip(name))

(* str.replace(old, "") for a one-character old *)
Remove(name, old) == SelectSeq(name, LAMBDA c : c # old)

(* name.lower().strip().replace("'", "").replace('"', "") *)
normalize_name(name) == Remove(Remove(Strip(Lower(name)), "'"), "\"")

(* Mutant: a lookup that also accepts a stored name of which key is a prefix. *)
kalshi_lookup_prefix(kalshi_prices, key) ==
    LET hits == { j \in DOMAIN kalshi_prices :
                    LET stored == normalize_name(kalshi_prices[j].event_name) IN
                    /\ Len(key) <= Len(stored)
                    /\ SubSeq(stored, 1, Len(key)) = key }
    IN IF hits = {} THEN None
       ELSE Some(kalshi_prices[CHOOSE j \in hits : \A h \in hits : h <= j])

(* kalshi_lookup[key]: the dict comprehension keeps the last quote of each
   normalized name; None when the key is absent. *)
kalshi_lookup(kalshi_prices, key) ==
    LET hits == { j \in DOMAIN kalshi_prices :
                    normalize_name(kalshi_prices[j].event_name) = key }
    IN IF hits = {} THEN None
       ELSE Some(kalshi_prices[CHOOSE j \in hits : \A h \in hits : h <= j])

(* abs(arb["platform_a_price"] - pm_market["yes_price"]) < 0.001 *)
LooksLikeDirection1(arb, pm_market) ==
    LET diff == arb.platform_a_price - pm_market.yes_price
        abs == IF diff < 0 THEN -diff ELSE diff
    IN 1000 * abs < PriceScale

(* The opportunity appended for pm_market from the solver's dictionary arb. *)
LabelOpportunity(arb, pm_market) ==
    LET venues == IF LooksLikeDirection1(arb, pm_market)
                  THEN <<"polymarket", "kalshi">>
                  ELSE <<"kalshi", "polymarket">>
    IN [ platform_a           |-> venues[1],
         platform_b           |-> venues[2],
         event_name           |-> pm_market.event_name,
         platform_a_outcome   |-> "yes",
         platform_a_price     |-> arb.platform_a_price,
         platform_b_outcome   |-> "no",
         platform_b_price     |-> arb.platform_b_price,
         bet_amount_a         |-> arb.bet_amount_a,
         bet_amount_b         |-> arb.bet_amount_b,
         total_investment     |-> arb.total_investment,
         guaranteed_payout    |-> arb.guaranteed_payout,
         profit               |-> arb.profit,
         profit_percentage    |-> arb.profit_percentage,
         combined_probability |-> arb.combined_probability ]

(* Mutant: a solver result kept when its rounded percentage is 0. *)
Qualifies_nonnegative(arb) == ~IsNone(arb) /\ Val(arb).profit_percentage >= 0

(* if arb and arb["profit_percentage"] > 0, for what calculate_arbitrage
   returned: None, or a dictionary with a rounded profit_percentage. *)
Qualifies(arb) == ~IsNone(arb) /\ Val(arb).profit_percentage > 0

(* The outcomes of one pass of the loop body for pm_market, each the list of
   the opportunities that pass appends (none or one), or an exception. *)
MatchOne(pm_market, kalshi_prices) ==
    LET found == kalshi_lookup(kalshi_prices, normalize_name(pm_market.event_name))
        kalshi_market == Val(found)
    IN IF IsNone(found) THEN {Returned(<<>>)}
       ELSE { IF out.raised THEN Raised
              ELSE IF Qualifies(out.value)
                   THEN Returned(<<LabelOpportunity(Val(out.value), pm_market)>>)
                   ELSE Returned(<<>>) :
              out \in calculate_arbitrage(pm_market.yes_price,
                                          kalshi_market.no_price,
                                          kalshi_market.yes_price,
                                          pm_market.no_price,
                                          TotalInvestmentDefault) }

(* The outcomes of find_arbitrage_opportunities: the list of opportunities in
   the order of polymarket_prices, or the exception of the first pass that
   raises. *)
RECURSIVE find_arbitrage_opportunities(_, _)
find_arbitrage_opportunities(polymarket_prices, kalshi_prices) ==
    IF polymarket_prices = <<>> THEN {Returned(<<>>)}
    ELSE UNION
           { IF head.raised THEN {Raised}
             ELSE { IF rest.raised THEN Raised
                    ELSE Returned(head.value \o rest.value) :
                    rest \in find_arbitrage_opportunities(Tail(polymarket_prices),
                                                          kalshi_prices) } :
             head \in MatchOne(Head(polymarket_prices), kalshi_prices) }

----------------------------------------------------------------------------
(* position_manager.py *)

(* The keywords of categorize_event's lists that occur as substrings of the
   lower-cased event name, for the event names the model uses. *)
KeywordHits(event_name) ==
    CASE event_name = "Will the Lakers make the 2026 NBA Finals?" -> {"nba", "lakers"}
      [] event_name = "Will the Fed cut rates after the 2026 election?" ->
             {"election", "fed", "rate"}
      [] event_name = "Will it rain tomorrow?" -> {"ai"}
      [] OTHER -> {}

(* The category of an event name in which the keywords hit occur. *)
CategoryOf(hit) ==
    IF hit \cap {"election", "president", "senate", "house", "republican",
                 "democratic", "midterm"} # {} THEN "Politics"
    ELSE IF hit \cap {"nba", "nfl", "super bowl", "championship", "world cup",
                      "warriors", "lakers", "chiefs"} # {} THEN "Sports"
    ELSE IF hit \cap {"bitcoin", "ethereum", "crypto", "blockchain"} # {} THEN "Crypto"
    ELSE IF hit \cap {"fed", "rate", "recession", "inflation", "unemployment",
                      "s&p", "gold", "dollar"} # {} THEN "Economic"
    ELSE IF hit \cap {"ai", "gpt", "openai", "tesla", "apple", "google", "amazon",
                      "spacex", "quantum"} # {} THEN "Tech"
    ELSE "Other"

categorize_event(event_name) == CategoryOf(KeywordHits(event_name))

(* Mutant: one entry per action, the latest replacing the earlier one. *)
log_task_latest_only(log, action, status) ==
    Append(SelectSeq(log, LAMBDA e : e.action # action),
           create_task_log_doc(action, status))

(* insert_one(create_task_log_doc(action, status, details, error)) *)
log_task(log, action, status) ==
    Append(log, create_task_log_doc(action, status))

(* The keys create_position_from_opportunity reads with opportunity[...]: a
   missing one raises KeyError inside its try block. *)
RequiredKeys ==
    {"event_name", "platform_a", "platform_b", "bet_amount_a", "bet_amount_b",
     "platform_a_price", "platform_b_price"}

(* opportunity.get(key, default) *)
Get(opportunity, key, default) ==
    IF key \in DOMAIN opportunity THEN opportunity[key] ELSE default

(* The last call: its name, the time it ran at and its return value, one field
   per kind of result (a position_id, a success flag, a count, an exception). *)
Ret(op, position_id, ok, count, raised, t) ==
    [op |-> op, position_id |-> position_id, ok |-> ok, count |-> count,
     raised |-> raised, at |-> t]

create_position_from_opportunity(opportunity) ==
    /\ Len(positions) < MaxPositions
    /\ Len(task_log) + 1 <= MaxLog
    /\ IF RequiredKeys \subseteq DOMAIN opportunity
       THEN LET position_id == Len(positions) + 1
                given == Get(opportunity, "expiration_date", None)
                expiration_date ==
                    IF ~IsNone(given) THEN Val(given)
                    ELSE now + DefaultExpiryDays * SecondsPerDay
                position ==
                    create_position_doc(position_id, opportunity,
                                        Get(opportunity, "profit", 0),
                                        expiration_date,
                                        categorize_event(opportunity.event_name),
                                        now)
            IN /\ positions' = Append(positions, position)
               /\ task_log' = log_task(task_log, "create_position", "success")
               /\ ret' = Ret("create", position_id, TRUE, 0, FALSE, now)
       ELSE /\ positions' = positions
            /\ task_log' = log_task(task_log, "create_position", "failure")
            /\ ret' = Ret("create", 0, FALSE, 0, TRUE, now)
    /\ UNCHANGED <<now, call, storeVars, agentVars, monVars>>

(* Mutant: update_position_state that forgets to refresh last_checked. *)
update_position_state_stale(p, new_state, actual_profit, t) ==
    IF ~IsNone(actual_profit)
    THEN [p EXCEPT !.state = new_state,
                   !.actual_profit = actual_profit, !.resolved_at = Some(t)]
    ELSE [p EXCEPT !.state = new_state]

(* The document update_one writes for position p in update_position_state. *)
update_position_state(p, new_state, actual_profit, t) ==
    IF ~IsNone(actual_profit)
    THEN [p EXCEPT !.state = new_state, !.last_checked = t,
                   !.actual_profit = actual_profit, !.resolved_at = Some(t)]
    ELSE [p EXCEPT !.state = new_state, !.last_checked = t]

(* Mutant: a scan filter that lets expired positions through. *)
IsActive_with_expired(p) == p.state \in {"watching", "entered", "expired"}

(* The filter of monitor_positions' find. *)
IsActive(p) == p.state \in {"watching", "entered"}

(* Mutant: a position is due as soon as the clock reaches its expiration. *)
IsDue_inclusive(p, t) == t >= p.expiration_date

(* The branch of monitor_positions' loop that resolves the position. *)
IsDue(p, t) == t > p.expiration_date

(* random.uniform(0.8, 1.2), in percent; actual_profit is kept in units of
   1/100 cent (target_profit in cents times the factor in percent). *)
ResolutionFactors == {80, 120}

(* Mutant: a loop body that resolves only the positions still in watching. *)
MonitorOne_watching_only(p, factor, t) ==
    IF ~IsActive(p) THEN p
    ELSE IF IsDue(p, t) /\ p.state = "watching"
         THEN update_position_state(p, "expired", Some(p.target_profit * factor), t)
         ELSE [p EXCEPT !.last_checked = t]

(* One pass of monitor_positions' loop body over position p. *)
MonitorOne(p, factor, t) ==
    IF ~IsActive(p) THEN p
    ELSE IF IsDue(p, t)
         THEN update_position_state(p, "expired", Some(p.target_profit * factor), t)
         ELSE [p EXCEPT !.last_checked = t]

(* The positions the loop resolves, in cursor order. *)
DuePositions(ps, t) ==
    SelectSeq(ps, LAMBDA p : IsActive(p) /\ IsDue(p, t))

(* The task-log entries of one monitor_positions call that resolves n positions. *)
RECURSIVE MonitorLog(_, _)
MonitorLog(log, n) ==
    IF n = 0 THEN log
    ELSE log_task(MonitorLog(log, n - 1), "update_position", "success")

monitor_positions ==
    LET updated == Len(DuePositions(positions, now)) IN
    /\ updated > 0 => Len(task_log) + updated + 1 <= MaxLog
    /\ \E factor \in [DOMAIN positions -> ResolutionFactors] :
           positions' = [i \in DOMAIN positions |->
                            MonitorOne(positions[i], factor[i], now)]
    /\ task_log' = IF updated > 0
                   THEN log_task(MonitorLog(task_log, updated),
                                 "monitor_positions", "success")
                   ELSE task_log
    /\ ret' = Ret("monitor", 0, TRUE, updated, FALSE, now)
    /\ UNCHANGED <<now, call, storeVars, agentVars, monVars>>

(* Mutant: order placement that does not look at the position's state. *)
simulate_order_placement_any_state(position_id) ==
    /\ IF position_id \notin DOMAIN positions
       THEN /\ ret' = Ret("confirm", position_id, FALSE, 0, FALSE, now)
            /\ UNCHANGED <<positions, task_log>>
       ELSE /\ Len(task_log) + 2 <= MaxLog
            /\ positions' =
                  [positions EXCEPT
                     ![position_id] = update_position_state(@, "entered", None, now)]
            /\ task_log' = log_task(log_task(task_log, "update_position", "success"),
                                    "place_orders", "success")
            /\ ret' = Ret("confirm", position_id, TRUE, 0, FALSE, now)
    /\ UNCHANGED <<now, call, storeVars, agentVars, monVars>>

simulate_order_placement(position_id) ==
    /\ IF position_id \notin DOMAIN positions
       THEN /\ ret' = Ret("confirm", position_id, FALSE, 0, FALSE, now)
            /\ UNCHANGED <<positions, task_log>>
       ELSE IF positions[position_id].state = "watching"
       THEN /\ Len(task_log) + 2 <= MaxLog
            /\ positions' =
                  [positions EXCEPT
                     ![position_id] = update_position_state(@, "entered", None, now)]
            /\ task_log' = log_task(log_task(task_log, "update_position", "success"),
                                    "place_orders", "success")
            /\ ret' = Ret("confirm", position_id, TRUE, 0, FALSE, now)
       ELSE /\ ret' = Ret("confirm", position_id, FALSE, 0, FALSE, now)
            /\ UNCHANGED <<positions, task_log>>
    /\ UNCHANGED <<now, call, storeVars, agentVars, monVars>>

(* The passage of time between two calls. *)
ClockSteps == {1, DefaultExpiryDays * SecondsPerDay}

Horizon == DefaultExpiryDays * SecondsPerDay + MaxSlack

AdvanceClock(d) ==
    /\ now + d <= Horizon
    /\ (now + d) % (DefaultExpiryDays * SecondsPerDay) <= MaxSlack
    /\ now' = now + d
    /\ UNCHANGED <<positions, task_log, ret, call, storeVars, agentVars, monVars>>

(* The opportunities handed to create_position_from_opportunity: as returned by
   find_arbitrage_opportunities (a "profit", no "expiration_date"), as made by
   generate_dummy_arbitrage_opportunities ("profit" and "expiration_date"), a
   stored opportunity document (neither), and a document that lacks a stake.
   The dated one expires at the second it is handed over, so that the clock
   passes through the instant now = expiration_date. *)
LiveOpportunity ==
    [ event_name |-> "Will the Lakers make the 2026 NBA Finals?",
      platform_a |-> "polymarket", platform_a_price |-> 45,
      platform_b |-> "kalshi", platform_b_price |-> 52,
      bet_amount_a |-> 4639, bet_amount_b |-> 5361,
      profit_percentage |-> 30928, profit |-> 309 ]

StoredOpportunity ==
    [ event_name |-> "Will the Fed cut rates after the 2026 election?",
      platform_a |-> "kalshi", platform_a_price |-> 47,
      platform_b |-> "polymarket", platform_b_price |-> 44,
      bet_amount_a |-> 5165, bet_amount_b |-> 4835,
      profit_percentage |-> 98901 ]

DatedOpportunity(expiration_date) ==
    [ event_name |-> "Will it rain tomorrow?",
      platform_a |-> "polymarket", platform_a_price |-> 45,
      platform_b |-> "kalshi", platform_b_price |-> 52,
      bet_amount_a |-> 4639, bet_amount_b |-> 5361,
      profit_percentage |-> 30928, profit |-> 309,
      expiration_date |-> Some(expiration_date) ]

BrokenOpportunity ==
    [ event_name |-> "Will it rain tomorrow?",
      platform_a |-> "polymarket", platform_a_price |-> 45,
      platform_b |-> "kalshi", platform_b_price |-> 52 ]

Opportunities(t) ==
    {LiveOpportunity, StoredOpportunity, BrokenOpportunity, DatedOpportunity(t)}

----------------------------------------------------------------------------
(* Spec: the position store under PositionManager's operations *)

NoCall == [fn |-> "none"]

(* ArbitrageAgent before run(): not running, no iteration begun, the local
   poll_interval of run() not yet bound; runs and cycles count the calls of
   run() and the iterations of all of them. *)
NotStarted ==
    [running |-> FALSE, iteration |-> 0, poll_interval |-> None, ended |-> "no",
     runs |-> 0, cycles |-> 0]

MaxMonitors == 2   \* processes that call monitor_positions

Monitors == 1..MaxMonitors

(* A process that is not inside monitor_positions; returned is the value of
   its last call. *)
Idle == [pc |-> "idle", cursor |-> <<>>, updated |-> 0, returned |-> None]

Init ==
    /\ positions = <<>>
    /\ task_log = <<>>
    /\ now = 0
    /\ ret = Ret("none", 0, TRUE, 0, FALSE, 0)
    /\ call = NoCall
    /\ arbitrage_opportunities = <<>>
    /\ uuid = 0
    /\ retry_delay = RetryDelayInitial
    /\ loop = NotStarted
    /\ market_type_performance = <<>>
    /\ market_prices = <<>>
    /\ monitors = [m \in Monitors |-> Idle]

Create == \E opportunity \in Opportunities(now) :
              create_position_from_opportunity(opportunity)

Monitor == monitor_positions

ConfirmEntry == \E position_id \in 1..(Len(positions) + 1) :
                    simulate_order_placement(position_id)

Tick == \E d \in ClockSteps : AdvanceClock(d)

Next == Create \/ Monitor \/ ConfirmEntry \/ Tick

Spec == Init /\ [][Next]_vars

----------------------------------------------------------------------------
(* Properties of the position lifecycle, checked under Spec *)

(* A step that is a call of the named PositionManager operation: every call
   records its name and time in ret, and only AdvanceClock moves the clock. *)
IsCallStep(op) == ret'.op = op /\ now' = now /\ posVars' # posVars

Edges ==
    { <<"watching", "entered">>, <<"watching", "expired">>,
      <<"entered", "expired">>, <<"expired", "profitable">>,
      <<"expired", "loss">> }

(* C1: across create_position_from_opportunity, simulate_order_placement and
   monitor_positions calls a stored position stays stored, a new one starts in
   watching, and a position's state changes only along watching->entered,
   watching->expired, entered->expired, expired->profitable, expired->loss; so
   a position in expired, profitable or loss never returns to watching or
   entered. *)
C1_StateEdges ==
    [][ /\ \A i \in DOMAIN positions :
             /\ i \in DOMAIN positions'
             /\ \/ positions'[i].state = positions[i].state
                \/ <<positions[i].state, positions'[i].state>> \in Edges
        /\ \A i \in DOMAIN positions' \ DOMAIN positions :
             positions'[i].state = "watching" ]_vars

(* C1 witness: a position went watching -> entered -> expired. *)
C1_Witness ==
    /\ Len(positions) = 1
    /\ positions[1].state = "expired"
    /\ \E k \in DOMAIN task_log : task_log[k].action = "place_orders"

(* C2: a monitor_positions call at time now moves every watching or entered
   position whose expiration_date is earlier than now to expired with
   actual_profit and resolved_at set, leaves every other watching or entered
   position as it was but for last_checked = now, and returns the number of
   positions it moved to expired. *)
C2_MonitorExpiresDue ==
    [][ IsCallStep("monitor") =>
          /\ DOMAIN positions' = DOMAIN positions
          /\ \A i \in DOMAIN positions :
               positions[i].state \in {"watching", "entered"} =>
                 IF positions[i].expiration_date < now
                 THEN /\ positions'[i].state = "expired"
                      /\ ~IsNone(positions'[i].actual_profit)
                      /\ ~IsNone(positions'[i].resolved_at)
                 ELSE positions'[i] = [positions[i] EXCEPT !.last_checked = now]
          /\ ret'.count =
               Cardinality({ i \in DOMAIN positions :
                               /\ positions[i].state # "expired"
                               /\ positions'[i].state = "expired" }) ]_vars

(* C2 witness: a position created with the default expiration, 30 days out,
   has been expired by a monitor call after that date, next to a position that
   the same call left active. *)
C2_Witness ==
    /\ ret.op = "monitor"
    /\ ret.count = 1
    /\ \E i \in DOMAIN positions :
          /\ positions[i].state = "expired"
          /\ positions[i].expiration_date =
                positions[i].created_at + DefaultExpiryDays * SecondsPerDay
          /\ positions[i].resolved_at = Some(ret.at)
          /\ ~IsNone(positions[i].actual_profit)
    /\ \E i \in DOMAIN positions :
          /\ positions[i].state \in {"watching", "entered"}
          /\ positions[i].last_checked = ret.at

(* C3: monitor_positions leaves a position that is already expired, profitable
   or loss exactly as it was, and a monitor_positions call that follows another
   one at the same clock value transitions no position. *)
C3_MonitorIdempotent ==
    [][ IsCallStep("monitor") =>
          /\ \A i \in DOMAIN positions :
               positions[i].state \in {"expired", "profitable", "loss"} =>
                 /\ i \in DOMAIN positions'
                 /\ positions'[i] = positions[i]
          /\ (ret.op = "monitor" /\ ret.at = now) =>
               /\ ret'.count = 0
               /\ \A i \in DOMAIN positions :
                    positions'[i].state = positions[i].state ]_vars

(* C3 witness: a second monitor call at the clock value of a first one that
   expired a position has returned 0 and the expired position is as the first
   call left it. *)
C3_Witness ==
    /\ ret.op = "monitor"
    /\ ret.count = 0
    /\ Len(task_log) > 0
    /\ task_log[Len(task_log)].action = "monitor_positions"
    /\ \E i \in DOMAIN positions :
          /\ positions[i].state = "expired"
          /\ positions[i].resolved_at = Some(now)
          /\ positions[i].last_checked = now

(* C4: simulate_order_placement on a watching position moves it to entered,
   sets last_checked and returns True; on a position in another state or on an
   unknown position_id it returns False and leaves every stored position as it
   was. *)
C4_ConfirmEntry ==
    [][ IsCallStep("confirm") =>
          LET id == ret'.position_id IN
          IF id \in DOMAIN positions /\ positions[id].state = "watching"
          THEN /\ ret'.ok
               /\ positions' =
                    [positions EXCEPT
                       ![id] = [@ EXCEPT !.state = "entered",
                                         !.last_checked = now]]
          ELSE /\ ~ret'.ok
               /\ positions' = positions ]_vars

(* C4 witness: a confirmation succeeded on a position created earlier, and is
   then refused on the same position. *)
C4_Witness ==
    /\ ret.op = "confirm"
    /\ ~ret.ok
    /\ ret.position_id \in DOMAIN positions
    /\ positions[ret.position_id].state = "entered"
    /\ positions[ret.position_id].last_checked > positions[ret.position_id].created_at

----------------------------------------------------------------------------
(* SpecArb: one call of calculate_arbitrage or find_arbitrage_opportunities *)

(* total_investment values *)
Notionals == {1, 37, TotalInvestmentDefault}

(* <<yes_price_b, no_price_a>> of the second direction: not profitable,
   combined exactly 1, profitable, and profitable with a yes price of 0. *)
OtherLegs ==
    { <<PriceScale, PriceScale>>, <<PriceScale - 50, 50>>, <<47, 44>>, <<0, 50>> }

Quote(event_name, yes_price, no_price) ==
    [event_name |-> event_name, yes_price |-> yes_price, no_price |-> no_price]

(* Event names: Fed's / feds / " FEDS " / "feds" in straight double quotes /
   fed + U+2019 + s / fed *)
NameFedApostropheS == << "F", "e", "d", "'", "s" >>
NameFeds == << "f", "e", "d", "s" >>
NameFedsPadded == << " ", "F", "E", "D", "S", " " >>
NameFedsQuoted == << "\"", "f", "e", "d", "s", "\"" >>
NameFedCurlyS == << "f", "e", "d", "RSQUO", "s" >>
NameFed == << "F", "E", "D" >>

PolymarketQuotes ==
    { Quote(NameFedApostropheS, 58, 44),
      Quote(NameFedsPadded, 50, 40),
      Quote(NameFedCurlyS, 45, 55),
      Quote(NameFed, 45, 55),
      Quote(NameFeds, 60, 45),
      Quote(NameFeds, 0, 50) }

KalshiQuotes ==
    { Quote(NameFeds, 47, 53),
      Quote(NameFeds, 50, 55),
      Quote(NameFeds, 48, 52),
      Quote(NameFedsQuoted, 60, 45),
      Quote(NameFed, 60, 45) }

(* The lists of at most n elements of S *)
SeqsUpTo(S, n) == UNION { [1..k -> S] : k \in 0..n }

CallCalculate ==
    /\ call = NoCall
    /\ \E yes_price_a \in 0..PriceScale, no_price_b \in 0..PriceScale,
          leg \in OtherLegs, total_investment \in Notionals :
         \E out \in calculate_arbitrage(yes_price_a, no_price_b, leg[1], leg[2],
                                        total_investment) :
            call' = [ fn |-> "calculate_arbitrage",
                      args |-> << yes_price_a, no_price_b, leg[1], leg[2],
                                  total_investment >>,
                      result |-> out ]
    /\ UNCHANGED <<posVars, storeVars, agentVars, monVars>>

CallFind ==
    /\ call = NoCall
    /\ \E polymarket_prices \in SeqsUpTo(PolymarketQuotes, MaxQuotes),
          kalshi_prices \in SeqsUpTo(KalshiQuotes, MaxQuotes) :
         \E out \in find_arbitrage_opportunities(polymarket_prices, kalshi_prices) :
            call' = [ fn |-> "find_arbitrage_opportunities",
                      args |-> <<polymarket_prices, kalshi_prices>>,
                      result |-> out ]
    /\ UNCHANGED <<posVars, storeVars, agentVars, monVars>>

NextArb == CallCalculate \/ CallFind

SpecArb == Init /\ [][NextArb]_vars

----------------------------------------------------------------------------
(* Properties of the solver and the matcher, checked under SpecArb *)

Abs(x) == IF x < 0 THEN -x ELSE x

IsCalculate == call.fn = "calculate_arbitrage"
IsFind == call.fn = "find_arbitrage_opportunities"

(* Opportunity o carries the event name of Polymarket quote p and the two leg
   prices of one of the directions of the pair (p, k). *)
FromPair(o, p, k) ==
    /\ o.event_name = p.event_name
    /\ \/ <<o.platform_a_price, o.platform_b_price>> = <<p.yes_price, k.no_price>>
       \/ <<o.platform_a_price, o.platform_b_price>> = <<k.yes_price, p.no_price>>

(* C5: when calculate_arbitrage returns the allocation of the direction
   yes_a + no_b < 1 for notional N, bet_amount_a + bet_amount_b is within 0.01
   of N, each stake is its leg's price times the common payout N/(yes_a+no_b)
   to the half cent that round(x, 2) loses, guaranteed_payout is that payout
   and profit is N*(1/(yes_a+no_b) - 1), both to the half cent. *)
C5_StakeSplit ==
    IsCalculate =>
      LET yes_a == call.args[1]
          no_b == call.args[2]
          N == call.args[5]
          c == yes_a + no_b
          out == call.result
      IN ( /\ ~out.raised
           /\ ~IsNone(out.value)
           /\ c < PriceScale
           /\ Val(out.value).platform_a_price = yes_a
           /\ Val(out.value).platform_b_price = no_b ) =>
         LET d == Val(out.value) IN
         /\ Abs(d.bet_amount_a + d.bet_amount_b - 100 * N) <= 1
         /\ 2 * Abs(d.bet_amount_a * c - 100 * N * yes_a) <= c
         /\ 2 * Abs(d.bet_amount_b * c - 100 * N * no_b) <= c
         /\ 2 * Abs(d.guaranteed_payout * c - 100 * N * PriceScale) <= c
         /\ 2 * Abs(d.profit * c - 100 * N * (PriceScale - c)) <= c

(* C5 witness: yes 0.03 and no 0.93 on notional 100, where both exact stakes,
   3.125 and 96.875, lie half way between two cents: the stakes 3.12 and 96.87
   that the floating-point evaluation returns add up to 99.99. *)
C5_Witness ==
    /\ IsCalculate
    /\ call.args = <<3, 93, PriceScale, PriceScale, TotalInvestmentDefault>>
    /\ PriceScale = 100
    /\ ~call.result.raised
    /\ ~IsNone(call.result.value)
    /\ Val(call.result.value).bet_amount_a = 312
    /\ Val(call.result.value).bet_amount_b = 9687
    /\ Val(call.result.value).profit = 417

(* C6: when yes_a + no_b >= 1 and yes_b + no_a >= 1 (exactly 1 included)
   calculate_arbitrage returns None, and find_arbitrage_opportunities returns
   no opportunity for a matched pair whose two directions are both >= 1. *)
C6_NoArbitrage ==
    /\ IsCalculate =>
         ( ( /\ call.args[1] + call.args[2] >= PriceScale
             /\ call.args[3] + call.args[4] >= PriceScale )
           => call.result = Returned(None) )
    /\ (IsFind /\ ~call.result.raised) =>
         LET pm == call.args[1]
             kalshi == call.args[2]
             opps == call.result.value
         IN \A i \in DOMAIN pm :
              LET found == kalshi_lookup(kalshi, normalize_name(pm[i].event_name))
              IN ( /\ ~IsNone(found)
                   /\ pm[i].yes_price + Val(found).no_price >= PriceScale
                   /\ Val(found).yes_price + pm[i].no_price >= PriceScale )
                 => \A n \in DOMAIN opps : ~FromPair(opps[n], pm[i], Val(found))

(* C6 witness: both directions cost exactly 1 and the solver returned None. *)
C6_Witness ==
    /\ IsCalculate
    /\ call.args[1] + call.args[2] = PriceScale
    /\ call.args[3] + call.args[4] = PriceScale
    /\ call.result = Returned(None)

(* C7: calculate_arbitrage returns the allocation of the direction with the
   higher profit percentage (the lower combined price) when both directions
   cost less than 1, the allocation of the only such direction when exactly one
   does, and None when neither does. *)
C7_SelectsBestDirection ==
    IsCalculate =>
      LET yes_a == call.args[1]
          no_b == call.args[2]
          yes_b == call.args[3]
          no_a == call.args[4]
          N == call.args[5]
          c1 == yes_a + no_b
          c2 == yes_b + no_a
          first == { Returned(Some(d)) : d \in Allocation(yes_a, no_b, N) }
          second == { Returned(Some(d)) : d \in Allocation(yes_b, no_a, N) }
      IN /\ ~call.result.raised
         /\ (c1 >= PriceScale /\ c2 >= PriceScale) => call.result = Returned(None)
         /\ (c1 < PriceScale /\ c2 >= PriceScale) => call.result \in first
         /\ (c1 >= PriceScale /\ c2 < PriceScale) => call.result \in second
         /\ (c1 < PriceScale /\ c2 < PriceScale /\ c1 < c2) => call.result \in first
         /\ (c1 < PriceScale /\ c2 < PriceScale /\ c2 < c1) => call.result \in second
         /\ (c1 < PriceScale /\ c2 < PriceScale /\ c1 = c2) =>
              call.result \in first \cup second

(* What remains of C7 on the calls that return: the selection is as C7 says
   whenever calculate_arbitrage does not raise. *)
SelectsBestDirectionWhenReturning ==
    (IsCalculate /\ ~call.result.raised) => C7_SelectsBestDirection

(* The scenario of C7: PM yes 0.58 / no 0.44 against Kalshi yes 0.47 / no 0.53
   selects Kalshi-yes + PM-no, combined 0.91, stakes 51.65 and 48.35. *)
ScenarioSelectsKalshiYes ==
      ( /\ IsFind
        /\ call.args[1] = <<Quote(NameFedApostropheS, 58, 44)>>
        /\ call.args[2] = <<Quote(NameFeds, 47, 53)>>
        /\ PriceScale = 100 ) =>
      /\ ~call.result.raised
      /\ Len(call.result.value) = 1
      /\ call.result.value[1].platform_a = "kalshi"
      /\ call.result.value[1].platform_b = "polymarket"
      /\ call.result.value[1].combined_probability = 9100
      /\ call.result.value[1].bet_amount_a = 5165
      /\ call.result.value[1].bet_amount_b = 4835
      /\ call.result.value[1].profit_percentage = 98901

(* C8: in every opportunity of find_arbitrage_opportunities platform_a is the
   venue whose yes price is platform_a_price and platform_b the other venue,
   whose no price is platform_b_price: either polymarket/kalshi with the
   Polymarket yes and the Kalshi no of a matched pair, or kalshi/polymarket
   with the Kalshi yes and the Polymarket no. *)
C8_VenueLabels ==
    (IsFind /\ ~call.result.raised) =>
      LET pm == call.args[1]
          kalshi == call.args[2]
          opps == call.result.value
      IN \A n \in DOMAIN opps :
           \E i \in DOMAIN pm :
             LET found == kalshi_lookup(kalshi, normalize_name(pm[i].event_name))
             IN /\ ~IsNone(found)
                /\ opps[n].event_name = pm[i].event_name
                /\ \/ /\ opps[n].platform_a = "polymarket"
                      /\ opps[n].platform_b = "kalshi"
                      /\ opps[n].platform_a_price = pm[i].yes_price
                      /\ opps[n].platform_b_price = Val(found).no_price
                   \/ /\ opps[n].platform_a = "kalshi"
                      /\ opps[n].platform_b = "polymarket"
                      /\ opps[n].platform_a_price = Val(found).yes_price
                      /\ opps[n].platform_b_price = pm[i].no_price

(* What remains of C8 when the venues quote different yes prices: the labels
   are right for every opportunity whose pair differs in its yes prices by at
   least 0.001. *)
VenueLabelsWhenYesPricesDiffer ==
    (IsFind /\ ~call.result.raised) =>
      LET pm == call.args[1]
          kalshi == call.args[2]
      IN (\A i \in DOMAIN pm :
            LET found == kalshi_lookup(kalshi, normalize_name(pm[i].event_name))
            IN ~IsNone(found) =>
                 1000 * Abs(pm[i].yes_price - Val(found).yes_price) >= PriceScale)
         => C8_VenueLabels

(* The normalization C9 describes: lower-case, trim, then remove every
   straight and every typographic quote character. *)
NormalizeAsSpecified(name) ==
    LET quotes == {"'", "\"", "LSQUO", "RSQUO", "LDQUO", "RDQUO"} IN
    SelectSeq(Strip(Lower(name)), LAMBDA c : c \notin quotes)

(* C9: a Polymarket quote and a Kalshi quote whose names are equal after
   lower-casing, trimming and removing straight and typographic quotes are
   matched: when that Kalshi quote is the only one of its name and the pair has
   a direction below 1, find_arbitrage_opportunities returns an opportunity of
   that pair. *)
C9_QuoteInsensitiveMatch ==
    (IsFind /\ ~call.result.raised) =>
      LET pm == call.args[1]
          kalshi == call.args[2]
          opps == call.result.value
      IN \A i \in DOMAIN pm : \A j \in DOMAIN kalshi :
           ( /\ NormalizeAsSpecified(pm[i].event_name) =
                  NormalizeAsSpecified(kalshi[j].event_name)
             /\ \A h \in DOMAIN kalshi :
                  NormalizeAsSpecified(kalshi[h].event_name) =
                    NormalizeAsSpecified(kalshi[j].event_name) => h = j
             /\ \/ pm[i].yes_price + kalshi[j].no_price < PriceScale
                \/ kalshi[j].yes_price + pm[i].no_price < PriceScale )
           => \E n \in DOMAIN opps : FromPair(opps[n], pm[i], kalshi[j])

(* What remains of C9 for the quote characters the code removes: the same
   statement with the normalization of normalize_name. *)
StraightQuoteInsensitiveMatch ==
    (IsFind /\ ~call.result.raised) =>
      LET pm == call.args[1]
          kalshi == call.args[2]
          opps == call.result.value
      IN \A i \in DOMAIN pm : \A j \in DOMAIN kalshi :
           ( /\ normalize_name(pm[i].event_name) =
                  normalize_name(kalshi[j].event_name)
             /\ \A h \in DOMAIN kalshi :
                  normalize_name(kalshi[h].event_name) =
                    normalize_name(kalshi[j].event_name) => h = j
             /\ \/ pm[i].yes_price + kalshi[j].no_price < PriceScale
                \/ kalshi[j].yes_price + pm[i].no_price < PriceScale )
           => \E n \in DOMAIN opps : FromPair(opps[n], pm[i], kalshi[j])

(* The Polymarket quotes of the call that have a Kalshi quote of the same
   normalized name. *)
Partnered(pm, kalshi) ==
    { i \in DOMAIN pm :
        \E j \in DOMAIN kalshi :
          normalize_name(kalshi[j].event_name) = normalize_name(pm[i].event_name) }

(* C10: every opportunity find_arbitrage_opportunities returns carries the
   name of a Polymarket quote and the leg prices of that quote and of a Kalshi
   quote with the identical normalized name; there are no more opportunities
   than Polymarket quotes with such a partner, so a quote without one produces
   nothing. *)
C10_ExactMatchOnly ==
    (IsFind /\ ~call.result.raised) =>
      LET pm == call.args[1]
          kalshi == call.args[2]
          opps == call.result.value
      IN /\ \A n \in DOMAIN opps :
              \E i \in Partnered(pm, kalshi) : \E j \in DOMAIN kalshi :
                /\ normalize_name(kalshi[j].event_name) =
                     normalize_name(pm[i].event_name)
                /\ FromPair(opps[n], pm[i], kalshi[j])
         /\ Len(opps) <= Cardinality(Partnered(pm, kalshi))

(* C10 witness: of two Polymarket quotes, "Fed's" and "FED", offered against
   Kalshi's "feds", only the first has a partner and only it produced an
   opportunity. *)
C10_Witness ==
    /\ IsFind
    /\ call.args[1] = <<Quote(NameFedApostropheS, 58, 44), Quote(NameFed, 45, 55)>>
    /\ call.args[2] = <<Quote(NameFeds, 47, 53)>>
    /\ ~call.result.raised
    /\ Len(call.result.value) = 1
    /\ call.result.value[1].event_name = NameFedApostropheS


----------------------------------------------------------------------------
(* arbitrage.py, models.py: the opportunity store *)

MaxStored == 2         \* opportunity documents stored in one run
DefaultLimit == 50     \* limit: int = 50

(* create_arbitrage_opportunity_doc: without an opportunity_id the two
   identifiers are two draws of uuid.uuid4(); the k-th draw of the run is the
   value k, so that every draw is a value never seen before. *)
create_arbitrage_opportunity_doc(opp, opportunity_id, drawn, t) ==
    [ _id               |-> IF IsNone(opportunity_id) THEN drawn + 1 ELSE Val(opportunity_id),
      opportunity_id    |-> IF IsNone(opportunity_id) THEN drawn + 2 ELSE Val(opportunity_id),
      event_name        |-> opp.event_name,
      platform_a        |-> opp.platform_a,
      platform_a_price  |-> opp.platform_a_price,
      platform_b        |-> opp.platform_b,
      platform_b_price  |-> opp.platform_b_price,
      profit_percentage |-> opp.profit_percentage,
      bet_amount_a      |-> opp.bet_amount_a,
      bet_amount_b      |-> opp.bet_amount_b,
      detected_at       |-> t,
      status            |-> "active" ]

(* Mutant: the expiry pass with an inclusive cutoff. *)
expire_stale_inclusive(docs, t) ==
    [ i \in DOMAIN docs |->
        IF docs[i].status = "active" /\ docs[i].detected_at <= t - FreshSeconds
        THEN [docs[i] EXCEPT !.status = "expired"]
        ELSE docs[i] ]

(* update_many({"status": "active", "detected_at": {"$lt": cutoff_time}},
               {"$set": {"status": "expired"}}) with cutoff_time five minutes
   before t. *)
expire_stale(docs, t) ==
    [ i \in DOMAIN docs |->
        IF docs[i].status = "active" /\ docs[i].detected_at < t - FreshSeconds
        THEN [docs[i] EXCEPT !.status = "expired"]
        ELSE docs[i] ]

(* Mutant: the upsert keyed by the event name. *)
update_one_upsert_by_event(docs, doc) ==
    LET hits == { i \in DOMAIN docs : docs[i].event_name = doc.event_name } IN
    IF hits = {} THEN Append(docs, doc)
    ELSE LET first == CHOOSE i \in hits : \A j \in hits : i <= j
         IN [docs EXCEPT ![first] = doc]

(* update_one({"opportunity_id": doc["opportunity_id"]}, {"$set": doc},
              upsert=True): the first document with that opportunity_id takes
   the fields of doc, and doc is inserted when there is none. *)
update_one_upsert(docs, doc) ==
    LET hits == { i \in DOMAIN docs : docs[i].opportunity_id = doc.opportunity_id } IN
    IF hits = {} THEN Append(docs, doc)
    ELSE LET first == CHOOSE i \in hits : \A j \in hits : i <= j
         IN [docs EXCEPT ![first] = doc]

(* The loop of store_arbitrage_opportunities over the detected opportunities. *)
RECURSIVE StoreEach(_, _, _, _)
StoreEach(docs, opportunities, drawn, t) ==
    IF opportunities = <<>> THEN docs
    ELSE LET doc == create_arbitrage_opportunity_doc(Head(opportunities), None, drawn, t)
         IN StoreEach(update_one_upsert(docs, doc), Tail(opportunities), drawn + 2, t)

(* The collection after store_arbitrage_opportunities(opportunities) at t. *)
Stored(docs, opportunities, drawn, t) ==
    StoreEach(expire_stale(docs, t), opportunities, drawn, t)

store_arbitrage_opportunities(opportunities) ==
    /\ Len(arbitrage_opportunities) + Len(opportunities) <= MaxStored
    /\ arbitrage_opportunities' = Stored(arbitrage_opportunities, opportunities, uuid, now)
    /\ uuid' = uuid + 2 * Len(opportunities)
    /\ call' = [ fn |-> "store_arbitrage_opportunities", args |-> <<opportunities>>,
                 result |-> Returned(None), at |-> now ]
    /\ UNCHANGED <<posVars, agentVars, monVars>>

(* Mutant: the query of get_active_opportunities without the freshness bound. *)
IsListed_any_age(doc, t) == doc.status = "active"

(* find({"status": "active", "detected_at": {"$gte": cutoff_time}}) *)
IsListed(doc, t) == doc.status = "active" /\ doc.detected_at >= t - FreshSeconds

(* cursor.limit(limit): a limit of 0 is no limit. *)
LimitCount(n, limit) ==
    IF limit = 0 \/ n <= limit THEN n ELSE limit

(* The loop body of get_active_opportunities over one returned document: the
   keys it rewrites (detected_at.isoformat()) and the keys it adds ("profit"
   from profit_percentage, "expiration_date" thirty days ahead). *)
Presented(doc, t) ==
    LET total_investment == doc.bet_amount_a + doc.bet_amount_b
        pct == doc.profit_percentage
    IN { [ _id |-> doc._id, opportunity_id |-> doc.opportunity_id,
           event_name |-> doc.event_name, status |-> doc.status,
           profit_percentage |-> doc.profit_percentage,
           detected_at |-> [isoformat |-> doc.detected_at],
           profit |-> profit,
           expiration_date |-> [isoformat |-> t + DefaultExpiryDays * SecondsPerDay] ] :
         profit \in IF pct > 0
                    THEN RoundSet(total_investment * pct, 1000000 + pct)
                    ELSE {0} }

(* .sort("profit_percentage", -1): the orders of the n matched documents by
   non-increasing profit_percentage; documents of equal profit_percentage come
   in any order. *)
SortOrders(matched) ==
    LET n == Len(matched) IN
    { p \in [1..n -> 1..n] :
        /\ \A i, j \in 1..n : i # j => p[i] # p[j]
        /\ \A i, j \in 1..n :
             i < j => matched[p[i]].profit_percentage >= matched[p[j]].profit_percentage }

(* The lists get_active_opportunities(limit) can return at t. *)
get_active_opportunities(docs, limit, t) ==
    LET matched == SelectSeq(docs, LAMBDA d : IsListed(d, t))
        k == LimitCount(Len(matched), limit)
        shown == UNION { Presented(matched[i], t) : i \in DOMAIN matched }
    IN UNION { { r \in [1..k -> shown] :
                   \A i \in 1..k : r[i] \in Presented(matched[p[i]], t) } :
               p \in SortOrders(matched) }

(* The passage of time between two calls on the store. *)
StoreClockSteps == {1, FreshSeconds}

StoreHorizon == 2 * FreshSeconds + MaxSlack

AdvanceStoreClock(d) ==
    /\ now + d <= StoreHorizon
    /\ (now + d) % FreshSeconds <= MaxSlack
    /\ now' = now + d
    /\ UNCHANGED <<positions, task_log, ret, call, storeVars, agentVars, monVars>>

(* The opportunities handed to store_arbitrage_opportunities *)
Detected == {LiveOpportunity, StoredOpportunity}

Limits == {1, 2, DefaultLimit}

----------------------------------------------------------------------------
(* SpecStore: the opportunity store under store_arbitrage_opportunities and
   get_active_opportunities *)

Store == \E opportunities \in SeqsUpTo(Detected, MaxStored) :
             store_arbitrage_opportunities(opportunities)

ListActive ==
    \E limit \in Limits :
      \E out \in get_active_opportunities(arbitrage_opportunities, limit, now) :
         /\ call' = [ fn |-> "get_active_opportunities", args |-> <<limit>>,
                      result |-> Returned(out), at |-> now ]
         /\ UNCHANGED <<posVars, storeVars, agentVars, monVars>>

StoreTick == \E d \in StoreClockSteps : AdvanceStoreClock(d)

NextStore == Store \/ ListActive \/ StoreTick

SpecStore == Init /\ [][NextStore]_vars


----------------------------------------------------------------------------
(* Properties of the opportunity store, checked under SpecStore *)

(* A step that is a call of store_arbitrage_opportunities. *)
IsStoreStep ==
    /\ call'.fn = "store_arbitrage_opportunities"
    /\ <<call, storeVars>>' # <<call, storeVars>>

(* A step that is a call of get_active_opportunities. *)
IsListStep == call'.fn = "get_active_opportunities" /\ call' # call

(* The same logical opportunity: the same event on the same pair of venues. *)
SameLogical(a, b) ==
    /\ a.event_name = b.event_name
    /\ {a.platform_a, a.platform_b} = {b.platform_a, b.platform_b}

IsFresh(doc, t) == doc.status = "active" /\ doc.detected_at >= t - FreshSeconds

(* C11: a store_arbitrage_opportunities call that detects again an opportunity
   whose earlier record is still active and inside the five-minute window
   keeps that record's opportunity_id and leaves no second active record of
   the same logical opportunity in the store. *)
C11_UpsertOnRedetection ==
    [][ IsStoreStep =>
          \A i \in DOMAIN arbitrage_opportunities :
            ( /\ IsFresh(arbitrage_opportunities[i], now)
              /\ \E k \in DOMAIN call'.args[1] :
                    SameLogical(arbitrage_opportunities[i], call'.args[1][k]) )
            => /\ arbitrage_opportunities'[i].opportunity_id =
                     arbitrage_opportunities[i].opportunity_id
               /\ \A j \in DOMAIN arbitrage_opportunities' :
                    ( /\ j # i
                      /\ arbitrage_opportunities'[j].status = "active"
                      /\ arbitrage_opportunities'[i].status = "active" )
                    => ~SameLogical(arbitrage_opportunities'[j],
                                    arbitrage_opportunities'[i]) ]_vars

(* C12: the expiry pass of store_arbitrage_opportunities at time now turns
   exactly the active records detected more than five minutes before now to
   expired and changes nothing else of the records it found, so that no record
   is left for a second pass at the same time: a store call that follows
   another one at the same clock value changes no record it found. *)
C12_ExpireStaleIdempotent ==
    [][ IsStoreStep =>
          /\ \A i \in DOMAIN arbitrage_opportunities :
               /\ i \in DOMAIN arbitrage_opportunities'
               /\ arbitrage_opportunities'[i] =
                    IF /\ arbitrage_opportunities[i].status = "active"
                       /\ now - arbitrage_opportunities[i].detected_at > FreshSeconds
                    THEN [arbitrage_opportunities[i] EXCEPT !.status = "expired"]
                    ELSE arbitrage_opportunities[i]
          /\ \A i \in DOMAIN arbitrage_opportunities' :
               arbitrage_opportunities'[i].status = "active" =>
                 now - arbitrage_opportunities'[i].detected_at <= FreshSeconds
          /\ (call.fn = "store_arbitrage_opportunities" /\ call.at = now) =>
               \A i \in DOMAIN arbitrage_opportunities :
                  arbitrage_opportunities'[i] = arbitrage_opportunities[i] ]_vars

(* C12 witness: a store call with nothing to insert has run at a time when one
   record was more than five minutes old, now expired, and another exactly
   five minutes old, still active. *)
C12_Witness ==
    /\ call.fn = "store_arbitrage_opportunities"
    /\ call.args[1] = <<>>
    /\ call.at = now
    /\ \E i \in DOMAIN arbitrage_opportunities :
          /\ arbitrage_opportunities[i].status = "expired"
          /\ now - arbitrage_opportunities[i].detected_at > FreshSeconds
    /\ \E i \in DOMAIN arbitrage_opportunities :
          /\ arbitrage_opportunities[i].status = "active"
          /\ now - arbitrage_opportunities[i].detected_at = FreshSeconds

(* C14: get_active_opportunities(limit) returns stored records that are active
   and detected within the last five minutes, each once, in non-increasing
   order of profit_percentage, at most limit of them and as many as limit
   allows, and no record it leaves out is more profitable than one it
   returns. *)
C14_ListActive ==
    [][ IsListStep =>
          LET listed == call'.result.value
              limit == call'.args[1]
              matching == { i \in DOMAIN arbitrage_opportunities :
                              IsFresh(arbitrage_opportunities[i], now) }
              Source(r) == { i \in matching :
                               arbitrage_opportunities[i]._id = r._id }
          IN /\ ~call'.result.raised
             /\ \A k \in DOMAIN listed :
                  /\ Source(listed[k]) # {}
                  /\ listed[k].status = "active"
                  /\ listed[k].detected_at.isoformat >= now - FreshSeconds
             /\ \A k, m \in DOMAIN listed :
                  /\ (k # m => listed[k]._id # listed[m]._id)
                  /\ (k < m => listed[k].profit_percentage >=
                                 listed[m].profit_percentage)
             /\ Len(listed) <= limit
             /\ Len(listed) = IF Cardinality(matching) <= limit
                              THEN Cardinality(matching) ELSE limit
             /\ \A i \in matching :
                  (\A k \in DOMAIN listed :
                      listed[k]._id # arbitrage_opportunities[i]._id)
                  => \A k \in DOMAIN listed :
                        listed[k].profit_percentage >=
                          arbitrage_opportunities[i].profit_percentage ]_vars

(* C14 witness: with two fresh active records of different profit in the store,
   get_active_opportunities(1) has returned the more profitable one. *)
C14_Witness ==
    /\ call.fn = "get_active_opportunities"
    /\ call.at = now
    /\ call.args[1] = 1
    /\ Len(call.result.value) = 1
    /\ \E i, j \in DOMAIN arbitrage_opportunities :
          /\ IsFresh(arbitrage_opportunities[i], now)
          /\ IsFresh(arbitrage_opportunities[j], now)
          /\ arbitrage_opportunities[i].profit_percentage >
               arbitrage_opportunities[j].profit_percentage
          /\ call.result.value[1]._id = arbitrage_opportunities[i]._id


----------------------------------------------------------------------------
(* agent.py: ArbitrageAgent._fetch_with_retry *)

MaxFetches == 2        \* _fetch_with_retry calls in one run

(* Mutant: a handler for the errors of the HTTP library only. *)
Catches_request_errors(kind) == kind = "RequestException"

(* except Exception: the classes of the exceptions raised in the try block
   (Exception by the simulated failure, a subclass of it by fetch_func). *)
Catches(kind) == kind \in {"Exception", "ValueError", "RequestException"}

(* Mutant: a backoff that doubles from the first retry on. *)
wait_time_doubled(delay, attempt) == delay * (2 ^ (attempt + 1))

(* wait_time = delay * (2 ** attempt) *)
wait_time(delay, attempt) == delay * (2 ^ attempt)

(* Mutant: an episode that ends without data leaves its last backoff behind as
   the next base delay. *)
retry_delay_after_inflated(before, result, slept) ==
    IF ~IsNone(result.value) THEN RetryDelayInitial
    ELSE IF slept = <<>> THEN before
    ELSE 2 * slept[Len(slept)].wait_time

(* self.retry_delay when _fetch_with_retry is left: set to 1 on the path that
   returns a result, not assigned on any other path. *)
retry_delay_after(before, result, slept) ==
    IF ~result.raised /\ ~IsNone(result.value) THEN RetryDelayInitial ELSE before

(* max_retries = max_retries or self.max_retries *)
EffectiveMaxRetries(max_retries) ==
    IF IsNone(max_retries) \/ Val(max_retries) = 0
    THEN MaxRetriesDefault ELSE Val(max_retries)

(* What a call of fetch_func can do: raise, return None, or return one of the
   given lists. *)
FetchFuncOutcomes(results) ==
    {[kind |-> "ValueError"], [kind |-> "nothing"]}
    \cup {[kind |-> "result", value |-> v] : v \in results}

(* Mutant: the simulated failure raised at the last attempt too. *)
AttemptOutcomes_every_attempt(attempt, max_retries, fetch_func) ==
    {[kind |-> "Exception"]} \cup fetch_func

(* What one pass of the try block can do at the given attempt: raise the
   simulated failure (never at the last attempt, where the draw is ignored),
   or call fetch_func, given as the set of the things it can do. *)
AttemptOutcomes(attempt, max_retries, fetch_func) ==
    (IF attempt < max_retries - 1 THEN {[kind |-> "Exception"]} ELSE {})
    \cup fetch_func

(* What the loop sees of an attempt: a result, nothing (None), or an
   exception raised in the try block. *)
AttemptMark(out) ==
    IF out.kind \in {"result", "nothing"} THEN out.kind ELSE "raised"

(* The ways the loop of _fetch_with_retry can run from the given attempt on;
   run holds the task log, the sleeps taken and what each attempt did. *)
RECURSIVE FetchFrom(_, _, _, _, _)
FetchFrom(attempt, max_retries, delay, run, fetch_func) ==
    IF attempt >= max_retries
    THEN {[run EXCEPT !.result = Returned(None)]}
    ELSE UNION {
      LET made == [run EXCEPT !.trace = Append(@, AttemptMark(out))] IN
      IF out.kind = "result"
      THEN {[made EXCEPT !.result = Returned(Some(out.value))]}
      ELSE IF out.kind = "nothing"
      THEN FetchFrom(attempt + 1, max_retries, delay, made, fetch_func)
      ELSE IF ~Catches(out.kind)
      THEN {[made EXCEPT !.result = Raised]}
      ELSE IF attempt < max_retries - 1
      THEN FetchFrom(attempt + 1, max_retries, delay,
                     [made EXCEPT
                        !.log = log_task(@, "fetch_data", "retry"),
                        !.slept = Append(@, [attempt |-> attempt,
                                             wait_time |-> wait_time(delay, attempt)])],
                     fetch_func)
      ELSE {[made EXCEPT !.log = log_task(@, "fetch_data", "failure"),
                         !.result = Returned(None)]}
      : out \in AttemptOutcomes(attempt, max_retries, fetch_func) }

(* The outcomes of _fetch_with_retry(fetch_func, platform_name, max_retries)
   entered with the given self.retry_delay and task log: the value returned or
   the exception left to the caller, the task log, the sleeps, what each
   attempt did, and self.retry_delay on leaving. *)
_fetch_with_retry(before, log, max_retries, fetch_func) ==
    LET n == EffectiveMaxRetries(max_retries)
        start == [result |-> Returned(None), log |-> log, slept |-> <<>>,
                  trace |-> <<>>, max_retries |-> n, delay |-> before]
    IN { [run EXCEPT !.delay = before] @@
         [retry_delay |-> retry_delay_after(before, run.result, run.slept)] :
         run \in FetchFrom(0, n, before, start, fetch_func) }

RECURSIVE SumOfSleeps(_)
SumOfSleeps(slept) ==
    IF slept = <<>> THEN 0 ELSE Head(slept).wait_time + SumOfSleeps(Tail(slept))

Platforms == {"Polymarket", "Kalshi"}

MaxRetriesArgs == {None, Some(2)}

(* What a venue's get_all_market_prices returns when it returns *)
VenueResults == {<<>>}

(* The number of the last call in the run *)
CallNumber(c) == IF c.fn = "none" THEN 0 ELSE c.number

(* A fetch_func that never fails: every call of it returns a list. *)
ReliableOutcomes(results) == {[kind |-> "result", value |-> v] : v \in results}

(* The fetch_func of a call: that of venue "any" may raise or answer None,
   that of "reliable" never does. *)
FetchFuncOf(venue) ==
    IF venue = "reliable" THEN ReliableOutcomes(VenueResults)
    ELSE FetchFuncOutcomes(VenueResults)

FetchFrom_venue(venue) ==
    /\ CallNumber(call) < MaxFetches
    /\ \E platform_name \in Platforms, max_retries \in MaxRetriesArgs :
         \E out \in _fetch_with_retry(retry_delay, task_log, max_retries,
                                       FetchFuncOf(venue)) :
            /\ task_log' = out.log
            /\ retry_delay' = out.retry_delay
            /\ now' = now + SumOfSleeps(out.slept)
            /\ call' = [ fn |-> "_fetch_with_retry",
                         args |-> <<platform_name, max_retries>>,
                         result |-> out.result, max_retries |-> out.max_retries,
                         delay |-> out.delay, slept |-> out.slept,
                         trace |-> out.trace, at |-> now, venue |-> venue,
                         number |-> CallNumber(call) + 1 ]
    /\ UNCHANGED <<positions, ret, storeVars, loop, market_type_performance, market_prices, monVars>>

Fetch == FetchFrom_venue("any")

FetchReliable == FetchFrom_venue("reliable")

NextFetch == Fetch \/ FetchReliable

SpecFetch == Init /\ [][NextFetch]_vars


----------------------------------------------------------------------------
(* Properties of _fetch_with_retry, checked under SpecFetch *)

IsFetch == call.fn = "_fetch_with_retry"

(* A step that is a call of _fetch_with_retry. *)
IsFetchStep == call'.fn = "_fetch_with_retry" /\ call' # call

(* The attempts of the last call that did not produce a result *)
FailedAttempts(c) == { k \in DOMAIN c.trace : c.trace[k] # "result" }

(* The entries a step appended to the task log *)
Appended == SubSeq(task_log', Len(task_log) + 1, Len(task_log'))

(* C15: _fetch_with_retry leaves no exception to its caller: whatever the
   attempts raise, it returns the result of fetch_func or None, after at most
   max_retries attempts, and a result is that of the last attempt made. *)
C15_NeverRaises ==
    IsFetch =>
      /\ ~call.result.raised
      /\ \/ IsNone(call.result.value)
         \/ Val(call.result.value) \in VenueResults
      /\ Len(call.trace) <= call.max_retries
      /\ call.max_retries = EffectiveMaxRetries(call.args[2])
      /\ ~IsNone(call.result.value) <=>
            (call.trace # <<>> /\ call.trace[Len(call.trace)] = "result")
      /\ \A k \in DOMAIN call.trace :
            call.trace[k] = "result" => k = Len(call.trace)

(* C15 witness: a call whose attempts raised, returned None and raised again
   has returned the result of its fifth attempt. *)
C15_Witness ==
    /\ IsFetch
    /\ call.trace = <<"raised", "nothing", "raised", "raised", "result">>
    /\ call.result = Returned(Some(<<>>))

(* C16: a _fetch_with_retry call that ends without data has appended a terminal
   fetch_data entry with status failure to the task log, and every attempt
   without a result that was followed by another attempt was logged with
   status retry and followed by a backoff sleep. *)
C16_FailureLogged ==
    [][ (IsFetchStep /\ IsNone(call'.result.value)) =>
          LET retried == { k \in FailedAttempts(call') : k < Len(call'.trace) } IN
          /\ Appended # <<>>
          /\ Appended[Len(Appended)] = create_task_log_doc("fetch_data", "failure")
          /\ Len(call'.slept) = Cardinality(retried)
          /\ Len(Appended) = Cardinality(retried) + 1
          /\ \A k \in 1..(Len(Appended) - 1) :
               Appended[k] = create_task_log_doc("fetch_data", "retry") ]_vars

(* The waits of the sleeps of the last call, in order *)
Waits(c) == [k \in DOMAIN c.slept |-> c.slept[k].wait_time]

AllRaised(c) == \A k \in DOMAIN c.trace : c.trace[k] = "raised"

(* C17 as stated: with max_retries = 5 and base delay 1 the five failed
   attempts 0..4 are followed by delays of 1, 2, 4, 8 and 16 seconds. *)
C17_BackoffDelays ==
    (IsFetch /\ call.max_retries = 5 /\ Len(call.trace) = 5 /\ AllRaised(call))
    => Waits(call) = <<1, 2, 4, 8, 16>>

(* C17 amended: a backoff sleep follows an attempt i that raised and is not the
   last one, and lasts the base delay 1 s times 2^i; with max_retries = 5 and
   all five attempts raising, the delays are 1, 2, 4, 8 seconds after attempts
   0..3 and none follows attempt 4. *)
C17_BackoffDelaysAmended ==
    IsFetch =>
      /\ \A k \in DOMAIN call.slept :
           /\ call.slept[k].attempt \in 0..(call.max_retries - 2)
           /\ call.trace[call.slept[k].attempt + 1] = "raised"
           /\ call.slept[k].wait_time = 2 ^ call.slept[k].attempt
      /\ \A i \in 0..(call.max_retries - 2) :
           (i + 1 \in DOMAIN call.trace /\ call.trace[i + 1] = "raised")
           => \E k \in DOMAIN call.slept : call.slept[k].attempt = i
      /\ (call.max_retries = 5 /\ Len(call.trace) = 5 /\ AllRaised(call))
           => Waits(call) = <<1, 2, 4, 8>>

(* C17 witness: a call with max_retries = 5 whose five attempts all raised has
   slept four times. *)
C17_Witness ==
    /\ IsFetch
    /\ call.max_retries = 5
    /\ Len(call.trace) = 5
    /\ AllRaised(call)
    /\ Len(call.slept) = 4
    /\ IsNone(call.result.value)

(* C18: self.retry_delay is the initial delay between any two calls, every call
   starts from it as its base delay whatever the earlier calls did, and a call
   whose first attempt raised sleeps exactly the initial delay first. *)
C18_BaseDelayReset ==
    /\ retry_delay = RetryDelayInitial
    /\ IsFetch =>
         /\ call.delay = RetryDelayInitial
         /\ (Len(call.trace) > 1 /\ call.trace[1] = "raised") =>
              /\ call.slept # <<>>
              /\ call.slept[1] = [attempt |-> 0, wait_time |-> RetryDelayInitial]

(* C18 witness: after an episode that ended in a terminal failure, the next
   call has raised at its first attempt and slept one second. *)
C18_Witness ==
    /\ IsFetch
    /\ call.number = 2
    /\ call.trace[1] = "raised"
    /\ call.slept # <<>>
    /\ call.slept[1].wait_time = 1
    /\ \E k \in DOMAIN task_log :
          /\ task_log[k].status = "failure"
          /\ k + 1 \in DOMAIN task_log
          /\ task_log[k + 1].status = "retry"


----------------------------------------------------------------------------
(* agent.py: ArbitrageAgent.get_adaptive_poll_interval *)

MaxCategories == 2     \* market_type_performance records in one snapshot

(* x.get("success_rate", 0) *)
SuccessRate(x) == IF "success_rate" \in DOMAIN x THEN x.success_rate ELSE 0

(* max(performance, key=lambda x: x.get("success_rate", 0)): the first record
   of the highest key. *)
BestMarket(performance) ==
    LET best == CHOOSE i \in DOMAIN performance :
                  /\ \A j \in DOMAIN performance :
                        SuccessRate(performance[j]) <= SuccessRate(performance[i])
                  /\ \A j \in 1..(i - 1) :
                        SuccessRate(performance[j]) < SuccessRate(performance[i])
    IN performance[best]

(* Mutant: the thresholds taken inclusively. *)
get_adaptive_poll_interval_inclusive(performance) ==
    IF performance = <<>> THEN POLL_INTERVAL_SECONDS
    ELSE LET best_rate == SuccessRate(BestMarket(performance)) IN
         IF best_rate >= 50
         THEN (IF MinPollSeconds > POLL_INTERVAL_SECONDS \div 2
               THEN MinPollSeconds ELSE POLL_INTERVAL_SECONDS \div 2)
         ELSE IF best_rate >= 30 THEN POLL_INTERVAL_SECONDS
         ELSE POLL_INTERVAL_SECONDS * 2

(* The value get_adaptive_poll_interval returns on the records that
   get_market_performance returned; success rates are in percent. *)
get_adaptive_poll_interval(performance) ==
    IF performance = <<>> THEN POLL_INTERVAL_SECONDS
    ELSE LET best_rate == SuccessRate(BestMarket(performance)) IN
         IF best_rate > 50
         THEN (IF MinPollSeconds > POLL_INTERVAL_SECONDS \div 2
               THEN MinPollSeconds ELSE POLL_INTERVAL_SECONDS \div 2)
         ELSE IF best_rate > 30 THEN POLL_INTERVAL_SECONDS
         ELSE POLL_INTERVAL_SECONDS * 2

(* Success rates around the two thresholds *)
Rates == {0, 30, 31, 50, 51, 100}

MarketTypes == {"Sports", "Politics"}

(* market_type_performance records, with and without a success_rate *)
PerformanceDocs ==
    { [market_type |-> m, success_rate |-> r] : m \in MarketTypes, r \in Rates }
    \cup { [market_type |-> m] : m \in MarketTypes }

CallPoll ==
    /\ call = NoCall
    /\ \E performance \in SeqsUpTo(PerformanceDocs, MaxCategories) :
          call' = [ fn |-> "get_adaptive_poll_interval", args |-> <<performance>>,
                    result |-> Returned(get_adaptive_poll_interval(performance)) ]
    /\ UNCHANGED <<posVars, storeVars, agentVars, monVars>>

NextPoll == CallPoll

SpecPoll == Init /\ [][NextPoll]_vars

----------------------------------------------------------------------------
(* Properties of get_adaptive_poll_interval, checked under SpecPoll *)

IsPoll == call.fn = "get_adaptive_poll_interval"

(* The success rates of a snapshot, an absent one counting as 0 *)
RatesOf(performance) ==
    { IF "success_rate" \in DOMAIN performance[i]
      THEN performance[i].success_rate ELSE 0 : i \in DOMAIN performance }

(* C19: get_adaptive_poll_interval returns the base interval on an empty
   snapshot; otherwise, with best the highest success rate of the snapshot,
   half the base interval but at least 30 when best > 50, the base interval
   when 30 < best <= 50, twice the base interval when best <= 30; with the
   base interval 60 that is 30, 60 or 120. *)
C19_AdaptiveInterval ==
    IsPoll =>
      LET performance == call.args[1]
          interval == call.result.value
          rates == RatesOf(performance)
          Best(b) == b \in rates /\ \A r \in rates : r <= b
      IN /\ ~call.result.raised
         /\ interval \in {30, 60, 120}
         /\ performance = <<>> => interval = POLL_INTERVAL_SECONDS
         /\ \A b \in rates :
              Best(b) =>
                /\ b > 50 => (interval >= 30 /\ interval * 2 = POLL_INTERVAL_SECONDS)
                /\ (b > 30 /\ b <= 50) => interval = POLL_INTERVAL_SECONDS
                /\ b <= 30 => interval = 2 * POLL_INTERVAL_SECONDS

(* C19 witness: on a snapshot whose best category stands at exactly 50 percent
   the base interval was returned. *)
C19_Witness ==
    /\ IsPoll
    /\ Len(call.args[1]) = 2
    /\ RatesOf(call.args[1]) = {30, 50}
    /\ call.result.value = 60


----------------------------------------------------------------------------
(* agent.py: the coordinator, ArbitrageAgent.run_once and its steps *)

MaxIterations == 2     \* iterations of run(), over all its runs
MaxRuns == 2           \* calls of run()

(* word in name, for lists of characters *)
Contains(name, word) ==
    \E i \in 0..(Len(name) - Len(word)) : SubSeq(name, i + 1, i + Len(word)) = word

(* The keywords of categorize_event's lists of at most four characters; the
   longer ones do not fit in the event names the venues list here. *)
ShortKeywords ==
    ("fed" :> << "f", "e", "d" >>) @@ ("rate" :> << "r", "a", "t", "e" >>) @@
    ("gold" :> << "g", "o", "l", "d" >>) @@ ("s&p" :> << "s", "&", "p" >>) @@
    ("nba" :> << "n", "b", "a" >>) @@ ("nfl" :> << "n", "f", "l" >>) @@
    ("ai" :> << "a", "i" >>) @@ ("gpt" :> << "g", "p", "t" >>)

(* categorize_event on an event name given as its list of characters *)
categorize_listed_event(event_name) ==
    CategoryOf({ k \in DOMAIN ShortKeywords :
                   Contains(Lower(event_name), ShortKeywords[k]) })

(* The collections and the agent's fields as one step of run_once leaves them
   to the next: clock is the time of day, caught the task-log actions of the
   handlers that caught an exception in this iteration, trace the methods
   the iteration has entered and the positions it has inserted, in order. *)
Database ==
    [ positions |-> positions, task_log |-> task_log,
      arbitrage_opportunities |-> arbitrage_opportunities, uuid |-> uuid,
      retry_delay |-> retry_delay,
      market_type_performance |-> market_type_performance,
      market_prices |-> market_prices, clock |-> now, caught |-> {},
      trace |-> <<>> ]

Logged(s, action, status) == [s EXCEPT !.task_log = log_task(@, action, status)]

Caught(s, action) == [s EXCEPT !.caught = @ \cup {action}]

Staged(s, stage) == [s EXCEPT !.trace = Append(@, stage)]

(* A venue's record of a market, as get_all_market_prices lists it. *)
Market(market_id, event_name, yes_price, no_price) ==
    [market_id |-> market_id] @@ Quote(event_name, yes_price, no_price)

create_market_price_doc(price_data, platform, outcome, t) ==
    [ _id        |-> <<platform, price_data.market_id, outcome, t>>,
      market_id  |-> price_data.market_id,
      platform   |-> platform,
      event_name |-> price_data.event_name,
      outcome    |-> outcome,
      price      |-> IF outcome = "yes" THEN price_data.yes_price
                     ELSE price_data.no_price,
      timestamp  |-> t ]

(* The docs list of store_market_prices: a yes and a no record per market. *)
RECURSIVE PriceDocs(_, _, _)
PriceDocs(prices, platform, t) ==
    IF prices = <<>> THEN <<>>
    ELSE << create_market_price_doc(Head(prices), platform, "yes", t),
            create_market_price_doc(Head(prices), platform, "no", t) >>
         \o PriceDocs(Tail(prices), platform, t)

(* insert_many(docs, ordered=False): every document whose _id is new is
   inserted, and the call raises when some _id was a duplicate. *)
insert_many_unordered(coll, docs) ==
    LET known(k) == \/ \E i \in DOMAIN coll : coll[i]._id = docs[k]._id
                    \/ \E j \in 1..(k - 1) : docs[j]._id = docs[k]._id
        fresh == SelectSeq([k \in DOMAIN docs |-> k], LAMBDA k : ~known(k))
    IN [ docs |-> coll \o [j \in DOMAIN fresh |-> docs[fresh[j]]],
         duplicate |-> \E k \in DOMAIN docs : known(k) ]

(* store_market_prices: a duplicate-key error is caught and only printed. *)
store_market_prices(s, prices, platform) ==
    LET docs == PriceDocs(prices, platform, s.clock)
        inserted == insert_many_unordered(s.market_prices, docs)
        after == [s EXCEPT !.market_prices = inserted.docs]
    IN IF docs = <<>> THEN s
       ELSE IF inserted.duplicate THEN Caught(after, "store_prices")
       ELSE Logged(after, "store_prices", "success")

(* How a venue answers in one iteration: its list at the first attempt, None
   at every attempt, or an exception at every attempt. *)
VenueAnswers == {"data", "silent", "down"}

(* What the venue's get_all_market_prices does at each attempt of the
   iteration. *)
AnswerOutcomes(answer, data) ==
    CASE answer = "data" -> {[kind |-> "result", value |-> data]}
      [] answer = "silent" -> {[kind |-> "nothing"]}
      [] answer = "down" -> {[kind |-> "ValueError"]}

(* What the attempts of _fetch_with_retry do in such an iteration: the
   simulated failure is not drawn where it would hide the venue's answer. *)
AnswerTrace(answer) ==
    CASE answer = "data" -> << "result" >>
      [] answer = "silent" -> [i \in 1..MaxRetriesDefault |-> "nothing"]
      [] answer = "down" -> [i \in 1..MaxRetriesDefault |-> "raised"]

(* One of the two halves of fetch_and_store_prices: the fetch with retry, then
   the storing of a non-empty list; prices is what run_once goes on with. *)
FetchVenue(s, answer, data, platform) ==
    { LET after == [s EXCEPT !.task_log = run.log,
                             !.retry_delay = run.retry_delay,
                             !.clock = @ + SumOfSleeps(run.slept),
                             !.caught = @ \cup (IF \E i \in DOMAIN run.trace :
                                                     run.trace[i] = "raised"
                                                THEN {"fetch_data"} ELSE {})]
          prices == IF run.result = Returned(Some(data)) THEN data ELSE <<>>
      IN [ db |-> IF prices # <<>> THEN store_market_prices(after, prices, platform)
                  ELSE after,
           prices |-> prices ] :
      run \in { r \in _fetch_with_retry(s.retry_delay, s.task_log, None,
                                         AnswerOutcomes(answer, data)) :
                  r.trace = AnswerTrace(answer) } }

(* The position created for an opportunity that has the required keys: one
   found by find_arbitrage_opportunities carries a profit and no expiration,
   one made by generate_dummy_arbitrage_opportunities carries both. *)
PositionFor(s, opportunity) ==
    LET given == Get(opportunity, "expiration_date", None) IN
    create_position_doc(Len(s.positions) + 1, opportunity,
                        Get(opportunity, "profit", 0),
                        IF ~IsNone(given) THEN Val(given)
                        ELSE s.clock + DefaultExpiryDays * SecondsPerDay,
                        categorize_listed_event(opportunity.event_name),
                        s.clock)

(* Mutant: the loop is left at the first opportunity whose insert fails. *)
NextOpportunity_stop_at_failure(opportunities, k, insert_fails) ==
    IF k \in insert_fails THEN Len(opportunities) + 1 ELSE k + 1

(* The opportunity the for loop goes on with after the k-th: the handler is
   inside the loop body, so a failed insert does not end the loop. *)
NextOpportunity(opportunities, k, insert_fails) == k + 1

(* The body of the loop of detect_arbitrage for one opportunity: the position
   is created unless the insert fails, in which case
   create_position_from_opportunity logs the failure and the handler of the
   loop body catches what it re-raises; the orders are placed when the draw
   of random.random() says so. *)
CreateOne(s, opportunity, insert_fails, place_orders) ==
    IF insert_fails
    THEN {Caught(Logged(s, "create_position", "failure"), "create_position")}
    ELSE LET created ==
               Staged(Logged([s EXCEPT !.positions =
                                 Append(@, PositionFor(s, opportunity))],
                             "create_position", "success"),
                      "insert_one")
             position_id == Len(created.positions)
         IN IF place_orders
            THEN {Logged(Logged([created EXCEPT !.positions[position_id] =
                                    update_position_state(@, "entered", None,
                                                          s.clock)],
                                "update_position", "success"),
                         "place_orders", "success")}
            ELSE {created}

(* The loop of detect_arbitrage over opportunities[:10] from the k-th on;
   insert_fails holds the places in the list of the opportunities whose
   insert raises. *)
RECURSIVE CreateFrom(_, _, _, _, _)
CreateFrom(s, opportunities, k, insert_fails, place_orders) ==
    IF k > Len(opportunities) THEN {s}
    ELSE UNION { CreateFrom(made, opportunities,
                            NextOpportunity(opportunities, k, insert_fails),
                            insert_fails, place_orders) :
                 made \in CreateOne(s, opportunities[k], k \in insert_fails,
                                    place_orders) }

(* The databases the loop can leave *)
CreatePositions(s, opportunities, insert_fails, place_orders) ==
    CreateFrom(s, opportunities, 1, insert_fails, place_orders)

(* The market types of the positions, in the order of their first position. *)
RECURSIVE TypesOf(_)
TypesOf(ps) ==
    IF ps = <<>> THEN <<>>
    ELSE LET before == TypesOf(SubSeq(ps, 1, Len(ps) - 1))
             last == ps[Len(ps)].market_type
         IN IF \E i \in DOMAIN before : before[i] = last THEN before
            ELSE Append(before, last)

create_market_performance_doc(market_type, opportunities_found, profitable_arbs) ==
    [ market_type         |-> market_type,
      opportunities_found |-> opportunities_found,
      profitable_arbs     |-> profitable_arbs,
      success_rate        |-> IF opportunities_found > 0
                              THEN (profitable_arbs * 100) \div opportunities_found
                              ELSE 0 ]

(* Mutant: a position with target_profit 0 counted as profitable. *)
IsProfitablePosition_inclusive(p) == p.target_profit >= 0

(* {"$cond": [{"$gt": ["$target_profit", 0]}, 1, 0]} *)
IsProfitablePosition(p) == p.target_profit > 0

(* calculate_historical_performance: one record per market type of the
   positions, replaced in place or appended; success rates in whole percent. *)
RECURSIVE UpsertPerformance(_, _, _)
UpsertPerformance(performance, types, ps) ==
    IF types = <<>> THEN performance
    ELSE LET market_type == Head(types)
             mine == SelectSeq(ps, LAMBDA p : p.market_type = market_type)
             doc == create_market_performance_doc(
                        market_type, Len(mine),
                        Len(SelectSeq(mine, IsProfitablePosition)))
             hits == { i \in DOMAIN performance :
                         performance[i].market_type = market_type }
             next == IF hits = {} THEN Append(performance, doc)
                     ELSE [performance EXCEPT ![CHOOSE i \in hits : TRUE] = doc]
         IN UpsertPerformance(next, Tail(types), ps)

calculate_historical_performance(s) ==
    [s EXCEPT !.market_type_performance =
                  UpsertPerformance(@, TypesOf(s.positions), s.positions)]

Min(a, b) == IF a < b THEN a ELSE b

PositionCap == 10      \* for opp in opportunities[:10]
DemoPositionCap == 8   \* for opp in opps[:8]

(* Mutant: the loop over all the opportunities. *)
FirstOf_all(opportunities, cap) == opportunities

(* opportunities[:cap] *)
FirstOf(opportunities, cap) ==
    SubSeq(opportunities, 1, Min(cap, Len(opportunities)))

(* detect_arbitrage for the outcomes found that find_arbitrage_opportunities
   can have: the opportunities are stored, and the stale ones expired,
   only when some were found.  store_arbitrage_opportunities has no handler
   of its own: when the update_one of its first opportunity raises, after the
   expiry pass and the making of the document, the exception reaches the
   handler of detect_arbitrage. *)
DetectWith(s, found, upsert_fails, insert_fails, place_orders) ==
    LET started == Staged(Logged(s, "detect_arbitrage", "start"),
                          "detect_arbitrage") IN
    UNION {
      IF out.raised
      THEN {Caught(Logged(started, "detect_arbitrage", "failure"), "detect_arbitrage")}
      ELSE IF out.value = <<>>
      THEN {Logged(started, "detect_arbitrage", "success")}
      ELSE IF upsert_fails
      THEN {Caught(Logged([started EXCEPT
                             !.arbitrage_opportunities = expire_stale(@, started.clock),
                             !.uuid = @ + 2],
                          "detect_arbitrage", "failure"),
                   "detect_arbitrage")}
      ELSE LET opportunities == out.value
               stored == [started EXCEPT
                            !.arbitrage_opportunities =
                                Stored(@, opportunities, started.uuid, started.clock),
                            !.uuid = @ + 2 * Len(opportunities)]
           IN { calculate_historical_performance(
                    Logged(created, "detect_arbitrage", "success")) :
                created \in CreatePositions(stored,
                                            FirstOf(opportunities, PositionCap),
                                            insert_fails, place_orders) } :
      out \in found }

detect_arbitrage(s, pm_prices, kalshi_prices, upsert_fails, insert_fails, place_orders) ==
    DetectWith(s, find_arbitrage_opportunities(pm_prices, kalshi_prices),
                  upsert_fails, insert_fails, place_orders)

(* ArbitrageAgent.monitor_positions: PositionManager.monitor_positions, then
   the performance when positions were resolved; an exception is logged. *)
agent_monitor_positions(db, scan_fails) ==
    LET s == Staged(db, "monitor_positions") IN
    IF scan_fails
    THEN {Caught(Logged(s, "monitor_positions", "failure"), "monitor_positions")}
    ELSE LET due == { i \in DOMAIN s.positions :
                        IsActive(s.positions[i]) /\ IsDue(s.positions[i], s.clock) }
             updated == Cardinality(due)
         IN { LET scanned ==
                    [s EXCEPT !.positions =
                        [i \in DOMAIN s.positions |->
                            MonitorOne(s.positions[i],
                                       IF i \in due THEN factor[i] ELSE 100,
                                       s.clock)]]
              IN IF updated > 0
                 THEN calculate_historical_performance(
                          Logged([scanned EXCEPT !.task_log = MonitorLog(@, updated)],
                                 "monitor_positions", "success"))
                 ELSE scanned :
              factor \in [due -> ResolutionFactors] }

(* fetch_and_store_prices in one iteration: the database after it and the two
   lists it returns, for what the two venues answer. *)
fetch_and_store_prices(s, sc) ==
    UNION { { [db |-> kalshi.db, pm_prices |-> pm.prices,
               kalshi_prices |-> kalshi.prices] :
              kalshi \in FetchVenue(pm.db, sc.kalshi, sc.kalshi_prices, "kalshi") } :
            pm \in FetchVenue(Logged([s EXCEPT !.clock = @ + sc.latency],
                                     "fetch_prices", "start"),
                              sc.pm, sc.pm_prices, "polymarket") }

(* Mutant: detection as soon as one venue gave prices. *)
FetchedAndDetected_either(s, sc) ==
    UNION { IF fetched.pm_prices # <<>> \/ fetched.kalshi_prices # <<>>
            THEN detect_arbitrage(fetched.db, fetched.pm_prices,
                                  fetched.kalshi_prices, sc.upsert_fails,
                                  sc.insert_fails, sc.place_orders)
            ELSE {fetched.db} :
            fetched \in fetch_and_store_prices(s, sc) }

(* run_once up to its call of monitor_positions: detection runs only when
   both venues gave prices. *)
FetchedAndDetected(s, sc) ==
    UNION { IF fetched.pm_prices # <<>> /\ fetched.kalshi_prices # <<>>
            THEN detect_arbitrage(fetched.db, fetched.pm_prices,
                                  fetched.kalshi_prices, sc.upsert_fails,
                                  sc.insert_fails, sc.place_orders)
            ELSE {fetched.db} :
            fetched \in fetch_and_store_prices(s, sc) }

(* run_once in one iteration: what the two venues answer, whether the insert
   of a position and the scan of the positions fail, and the order draw. *)
run_once(s, sc) ==
    UNION { agent_monitor_positions(detected, sc.scan_fails) :
            detected \in FetchedAndDetected(s, sc) }

(* The places of run_once at which the model lets Ctrl+C arrive: when
   fetch_and_store_prices has returned, and when detection is over. *)
InterruptPoints == {"fetched", "detected"}

(* The database at the moment KeyboardInterrupt is raised inside run_once. *)
run_once_interrupted(s, sc, point) ==
    IF point = "fetched"
    THEN { fetched.db : fetched \in fetch_and_store_prices(s, sc) }
    ELSE FetchedAndDetected(s, sc)

----------------------------------------------------------------------------
(* SpecAgent: the coordinator loop of ArbitrageAgent.run *)

(* One market listed by both venues under the same name: Kalshi's quote makes
   an arbitrage with Polymarket's, none, or the solver divide by zero. *)
PolymarketMarket == Market("pm-1", NameFeds, 45, 55)
KalshiArbitrage == Market("k-1", NameFeds, 47, 53)
KalshiNoArbitrage == Market("k-1", NameFeds, 50, 55)
KalshiZeroYes == Market("k-1", NameFeds, 0, 50)

(* An iteration in which both venues answer and an arbitrage is found *)
Detection ==
    [ read_fails |-> FALSE,
      pm |-> "data", pm_prices |-> << PolymarketMarket >>,
      kalshi |-> "data", kalshi_prices |-> << KalshiArbitrage >>,
      upsert_fails |-> FALSE, insert_fails |-> {}, place_orders |-> FALSE,
      scan_fails |-> FALSE, latency |-> 0 ]

(* What can happen to one iteration of run(): the read of the performance
   records fails; an arbitrage is found, with and without the order draw, or
   with a failing upsert of the opportunity or insert of the position; none is found; the solver raises;
   Kalshi lists nothing, or answers None, or Polymarket is down, or both
   venues are down and slow to say so; the scan of the positions fails.
   latency is the time the requests of the iteration take, in seconds. *)
Scenarios ==
    { [Detection EXCEPT !.read_fails = TRUE],
      Detection,
      [Detection EXCEPT !.place_orders = TRUE],
      [Detection EXCEPT !.upsert_fails = TRUE],
      [Detection EXCEPT !.insert_fails = {1}],
      [Detection EXCEPT !.kalshi_prices = << KalshiNoArbitrage >>],
      [Detection EXCEPT !.kalshi_prices = << KalshiZeroYes >>],
      [Detection EXCEPT !.kalshi_prices = <<>>],
      [Detection EXCEPT !.kalshi = "silent"],
      [Detection EXCEPT !.pm = "down"],
      [Detection EXCEPT !.pm = "down", !.kalshi = "down", !.latency = 1],
      [Detection EXCEPT !.kalshi_prices = << KalshiNoArbitrage >>,
                        !.scan_fails = TRUE] }

(* The iterations in which the model lets Ctrl+C arrive: one that finds an
   arbitrage, one with Kalshi silent, one with Polymarket down. *)
InterruptedScenarios ==
    { Detection, [Detection EXCEPT !.kalshi = "silent"],
      [Detection EXCEPT !.pm = "down"] }

(* The time the process stays down between two runs *)
Downtimes == {0, FreshSeconds + 1}

Max(a, b) == IF a > b THEN a ELSE b

(* ArbitrageAgent() and the beginning of run(): _resume_from_state logs the
   recovery and recomputes the performance, run() sets running and enters its
   loop with poll_interval unbound. *)
StartAgent ==
    /\ ~loop.running
    /\ loop.runs < MaxRuns
    /\ \E d \in (IF loop.runs = 0 THEN {0} ELSE Downtimes) :
         LET resumed == calculate_historical_performance(
                            Logged(Database, "recover", "success"))
         IN /\ now' = now + d
            /\ task_log' = resumed.task_log
            /\ market_type_performance' = resumed.market_type_performance
            /\ retry_delay' = RetryDelayInitial
            /\ loop' = [NotStarted EXCEPT !.running = TRUE,
                                          !.runs = loop.runs + 1,
                                          !.cycles = loop.cycles]
            /\ call' = [fn |-> "run", number |-> loop.cycles, at |-> now + d]
    /\ UNCHANGED <<positions, ret, storeVars, market_prices, monVars>>

(* Mutant: the whole interval is slept after every iteration. *)
sleep_time_full(poll_interval, elapsed) == poll_interval

(* sleep_time of run(): what is left of the interval after the iteration;
   time.sleep is called only when it is positive. *)
sleep_time(poll_interval, elapsed) == Max(0, poll_interval - elapsed)

(* One pass of the while loop of run(): the inner try block, its handler, and
   the sleep after it, which reads poll_interval. *)
Iterate ==
    /\ loop.running
    /\ loop.cycles < MaxIterations
    /\ \E sc \in Scenarios :
         \E s \in (IF sc.read_fails
                   THEN {Caught(Logged(Database, "agent_loop", "failure"),
                                "agent_loop")}
                   ELSE run_once(Database, sc)) :
            LET poll_interval ==
                    IF sc.read_fails THEN loop.poll_interval
                    ELSE Some(get_adaptive_poll_interval(market_type_performance))
                elapsed == s.clock - now
            IN /\ positions' = s.positions
               /\ task_log' = s.task_log
               /\ arbitrage_opportunities' = s.arbitrage_opportunities
               /\ uuid' = s.uuid
               /\ retry_delay' = s.retry_delay
               /\ market_type_performance' = s.market_type_performance
               /\ market_prices' = s.market_prices
               /\ IF IsNone(poll_interval)
                  THEN /\ loop' = [loop EXCEPT !.running = FALSE,
                                               !.ended = "raised",
                                               !.iteration = @ + 1,
                                               !.cycles = @ + 1]
                       /\ now' = s.clock
                  ELSE /\ loop' = [loop EXCEPT !.poll_interval = poll_interval,
                                               !.iteration = @ + 1,
                                               !.cycles = @ + 1]
                       /\ now' = s.clock + sleep_time(Val(poll_interval), elapsed)
               /\ call' = [ fn |-> "iteration", number |-> loop.cycles + 1,
                            scenario |-> sc, caught |-> s.caught,
                            trace |-> s.trace,
                            at |-> now, cycle_end |-> s.clock ]
    /\ UNCHANGED <<ret, monVars>>

(* Ctrl+C during the sleep of run(). *)
StopAgent ==
    /\ loop.running
    /\ task_log' = log_task(task_log, "agent_shutdown", "success")
    /\ loop' = [loop EXCEPT !.running = FALSE, !.ended = "stopped"]
    /\ call' = [fn |-> "stop", number |-> loop.cycles, at |-> now]
    /\ UNCHANGED <<positions, now, ret, storeVars, retry_delay,
                   market_type_performance, market_prices, monVars>>

(* Ctrl+C while run_once is running: KeyboardInterrupt is no Exception, so no
   handler below run() catches it; the inner handler re-raises it and the
   outer one logs the shutdown and leaves the loop. *)
InterruptIteration ==
    /\ loop.running
    /\ loop.cycles < MaxIterations
    /\ \E sc \in InterruptedScenarios, point \in InterruptPoints :
         \E s \in run_once_interrupted(Database, sc, point) :
            /\ positions' = s.positions
            /\ task_log' = log_task(s.task_log, "agent_shutdown", "success")
            /\ arbitrage_opportunities' = s.arbitrage_opportunities
            /\ uuid' = s.uuid
            /\ retry_delay' = s.retry_delay
            /\ market_type_performance' = s.market_type_performance
            /\ market_prices' = s.market_prices
            /\ now' = s.clock
            /\ loop' = [loop EXCEPT !.running = FALSE, !.ended = "stopped",
                                    !.iteration = @ + 1, !.cycles = @ + 1,
                                    !.poll_interval =
                                        Some(get_adaptive_poll_interval(
                                                 market_type_performance))]
            /\ call' = [ fn |-> "interrupted", number |-> loop.cycles + 1,
                         scenario |-> sc, point |-> point, caught |-> s.caught,
                         trace |-> s.trace,
                         at |-> now, cycle_end |-> s.clock ]
    /\ UNCHANGED <<ret, monVars>>

NextAgent == StartAgent \/ Iterate \/ StopAgent \/ InterruptIteration

SpecAgent == Init /\ [][NextAgent]_vars

----------------------------------------------------------------------------
(* Properties of the coordinator loop, checked under SpecAgent *)

(* A step that is one iteration of run() *)
IsIterationStep == call'.fn = "iteration" /\ loop'.cycles = loop.cycles + 1

(* The entries the step appended to the task log *)
AppendedEntries ==
    { task_log'[i] : i \in (Len(task_log) + 1)..Len(task_log') }

(* C13: at the end of every coordinator cycle in which run_once ran, whether
   or not an opportunity was detected and whatever the venues returned, no
   stored opportunity is active with a detected_at older than the five-minute
   freshness window. *)
C13_NoStaleActive ==
    (call.fn = "iteration" /\ ~call.scenario.read_fails)
    => \A i \in DOMAIN arbitrage_opportunities :
          arbitrage_opportunities[i].status = "active"
          => ~(arbitrage_opportunities[i].detected_at
                 < call.cycle_end - FreshSeconds)

(* C20: an iteration of run() never ends the loop, and every exception it
   raised was caught and logged to the task log with status failure: after
   the iteration the loop is still running, and each handler that caught an
   exception appended its failure entry. *)
C20_LoopSurvives ==
    [][ IsIterationStep
        => /\ loop'.running /\ loop'.ended = "no"
           /\ \A action \in call'.caught :
                 create_task_log_doc(action, "failure") \in AppendedEntries ]_vars

(* A step in which Ctrl+C arrived while run_once was running *)
IsInterruptStep == call'.fn = "interrupted" /\ loop'.cycles = loop.cycles + 1

(* C21: when a stop is requested while an iteration is in progress, the
   iteration runs to completion (fetch, detect, create, monitor), the sleep
   after it is skipped and the loop exits: the collections are as some
   complete run_once leaves them, followed by the shutdown entry, the clock
   is where run_once ended, and the loop is not running. *)
C21_GracefulInterruption ==
    [][ IsInterruptStep
        => /\ ~loop'.running
           /\ \E s \in run_once(Database, call'.scenario) :
                 /\ positions' = s.positions
                 /\ task_log' = log_task(s.task_log, "agent_shutdown", "success")
                 /\ arbitrage_opportunities' = s.arbitrage_opportunities
                 /\ market_type_performance' = s.market_type_performance
                 /\ market_prices' = s.market_prices
                 /\ now' = s.clock ]_vars

----------------------------------------------------------------------------
(* SpecMonitor: monitor_positions called by several processes on one store *)

(* find({"state": {"$in": ["watching", "entered"]}}): the process holds the
   documents as they were when the cursor read them. *)
MonitorFind(m) ==
    /\ monitors[m].pc = "idle"
    /\ monitors' = [monitors EXCEPT
                      ![m] = [pc |-> "loop",
                              cursor |-> SelectSeq(positions, IsActive),
                              updated |-> 0, returned |-> None]]
    /\ UNCHANGED <<positions, task_log, now, ret, call, storeVars, agentVars>>

(* One pass of the for loop: the test of the expiration date reads the
   document of the cursor, and update_one writes to the stored document
   of that position_id whatever its state has become. *)
MonitorPass(m) ==
    /\ monitors[m].pc = "loop"
    /\ monitors[m].cursor # <<>>
    /\ LET position == Head(monitors[m].cursor)
           position_id == position.position_id
       IN IF IsDue(position, now)
          THEN /\ Len(task_log) + 1 <= MaxLog
               /\ \E factor \in ResolutionFactors :
                     positions' =
                        [positions EXCEPT ![position_id] =
                            update_position_state(@, "expired",
                                Some(position.target_profit * factor), now)]
               /\ task_log' = log_task(task_log, "update_position", "success")
               /\ monitors' = [monitors EXCEPT ![m].cursor = Tail(@),
                                               ![m].updated = @ + 1]
          ELSE /\ positions' = [positions EXCEPT ![position_id].last_checked = now]
               /\ task_log' = task_log
               /\ monitors' = [monitors EXCEPT ![m].cursor = Tail(@)]
    /\ UNCHANGED <<now, ret, call, storeVars, agentVars>>

(* The end of the loop: the summary entry and the return value. *)
MonitorReturn(m) ==
    /\ monitors[m].pc = "loop"
    /\ monitors[m].cursor = <<>>
    /\ monitors[m].updated > 0 => Len(task_log) + 1 <= MaxLog
    /\ task_log' = IF monitors[m].updated > 0
                   THEN log_task(task_log, "monitor_positions", "success")
                   ELSE task_log
    /\ monitors' = [monitors EXCEPT
                      ![m] = [Idle EXCEPT !.returned = Some(monitors[m].updated)]]
    /\ UNCHANGED <<positions, now, ret, call, storeVars, agentVars>>

NextMonitor ==
    \/ Create
    \/ Tick
    \/ \E m \in Monitors : MonitorFind(m) \/ MonitorPass(m) \/ MonitorReturn(m)

SpecMonitor == Init /\ [][NextMonitor]_vars

----------------------------------------------------------------------------
(* Properties of interleaved monitor invocations, checked under SpecMonitor *)

(* Process m makes a pass of its loop in this step *)
IsPassOf(m) ==
    /\ monitors[m].pc = "loop"
    /\ monitors[m].cursor # <<>>
    /\ monitors'[m] # monitors[m]

(* C22: interleaved monitor invocations do not apply the transition to
   expired twice: a pass over a position that another invocation has already
   expired leaves its actual_profit and resolved_at as they were written and
   does not count the position as transitioned. *)
C22_NoDoubleTransition ==
    [][ \A m \in Monitors :
          IsPassOf(m)
          => LET position_id == Head(monitors[m].cursor).position_id IN
             positions[position_id].state = "expired"
             => /\ positions'[position_id].actual_profit
                     = positions[position_id].actual_profit
                /\ positions'[position_id].resolved_at
                     = positions[position_id].resolved_at
                /\ monitors'[m].updated = monitors[m].updated ]_vars

----------------------------------------------------------------------------
(* SpecExpiry: the position store fed with opportunities that carry an
   expiration_date a second before, or at, the time they are handed over *)

StaleOpportunities(t) == {DatedOpportunity(t - 1), DatedOpportunity(t)}

CreateStale == \E opportunity \in StaleOpportunities(now) :
                   create_position_from_opportunity(opportunity)

NextExpiry == CreateStale \/ Monitor \/ ConfirmEntry \/ Tick

SpecExpiry == Init /\ [][NextExpiry]_vars

(* The position was created after its expiration_date *)
CreatedStale(p) == p.expiration_date < p.created_at

(* C23: a position whose expiration_date is already past when it is created
   is persisted in watching (the creation of a dated opportunity never
   fails), and the next monitor call moves it to expired with actual_profit
   and resolved_at set, whether it is still watching or was entered. *)
C23_StaleCreatedThenExpired ==
    [][ /\ IsCallStep("create")
           => /\ ret'.ok /\ ~ret'.raised
              /\ Len(positions') = Len(positions) + 1
              /\ positions'[Len(positions')].state = "watching"
        /\ IsCallStep("monitor")
           => \A i \in DOMAIN positions :
                 (CreatedStale(positions[i])
                    /\ positions[i].state \in {"watching", "entered"})
                 => /\ positions'[i].state = "expired"
                    /\ ~IsNone(positions'[i].actual_profit)
                    /\ positions'[i].resolved_at = Some(now) ]_vars

(* C23 witness: a position created after its expiration_date, and confirmed
   in between, has been expired by the monitor call. *)
C23_Witness ==
    /\ ret.op = "monitor"
    /\ ret.count = 1
    /\ \E k \in DOMAIN task_log : task_log[k].action = "place_orders"
    /\ \E i \in DOMAIN positions :
          /\ CreatedStale(positions[i])
          /\ positions[i].state = "expired"
          /\ ~IsNone(positions[i].actual_profit)
          /\ positions[i].resolved_at = Some(ret.at)

----------------------------------------------------------------------------
(* SpecPerf: calculate_historical_performance over a growing position store *)

MaxPerfPositions == 4   \* positions in the store

NameNba == << "n", "b", "a" >>

(* Opportunities of two market types: as the matcher returns them, with a
   profit, and as the opportunity store keeps them, without one. *)
PerfOpportunities ==
    { [LiveOpportunity EXCEPT !.event_name = NameNba],
      [StoredOpportunity EXCEPT !.event_name = NameNba],
      [LiveOpportunity EXCEPT !.event_name = NameFeds] }

(* A position is created, and its orders placed or not, as in the loop of
   detect_arbitrage. *)
OpenPosition ==
    /\ Len(positions) < MaxPerfPositions
    /\ \E opportunity \in PerfOpportunities, place_orders \in BOOLEAN :
         \E s \in CreatePositions(Database, << opportunity >>, {}, place_orders) :
            /\ positions' = s.positions
            /\ task_log' = s.task_log
    /\ UNCHANGED <<now, ret, call, storeVars, agentVars, monVars>>

Recompute ==
    /\ market_type_performance' =
          calculate_historical_performance(Database).market_type_performance
    /\ call' = [fn |-> "calculate_historical_performance", read |-> Len(positions)]
    /\ UNCHANGED <<posVars, storeVars, retry_delay, loop, market_prices, monVars>>

NextPerf == OpenPosition \/ Recompute

SpecPerf == Init /\ [][NextPerf]_vars

(* The positions of a market type, and the profitable ones among them *)
OfType(market_type) ==
    { i \in DOMAIN positions : positions[i].market_type = market_type }

ProfitableOfType(market_type) ==
    { i \in OfType(market_type) : positions[i].target_profit > 0 }

(* A step that is a call of calculate_historical_performance *)
IsRecomputeStep ==
    call'.fn = "calculate_historical_performance" /\ positions' = positions

(* C24: calculate_historical_performance leaves, for every market type that
   has a position in any state, exactly one performance record, whose
   opportunities_found is the number of positions of the type, whose
   profitable_arbs is the number of those with target_profit > 0, and whose
   success_rate is profitable_arbs / opportunities_found * 100, in whole
   percent. *)
C24_PerformanceRecords ==
    [][ IsRecomputeStep
        => \A i \in DOMAIN positions :
              LET market_type == positions[i].market_type
                  found == Cardinality(OfType(market_type))
                  profitable == Cardinality(ProfitableOfType(market_type))
                  records == { k \in DOMAIN market_type_performance' :
                                 market_type_performance'[k].market_type = market_type }
              IN /\ Cardinality(records) = 1
                 /\ \A k \in records :
                       /\ market_type_performance'[k].opportunities_found = found
                       /\ market_type_performance'[k].profitable_arbs = profitable
                       /\ market_type_performance'[k].success_rate
                            = (profitable * 100) \div found ]_vars

(* C24 witness: four Sports positions, three of them with target_profit > 0
   and not all in the same state, give a Sports record with success_rate 75. *)
C24_Witness ==
    /\ call.fn = "calculate_historical_performance"
    /\ Cardinality(OfType("Sports")) = 4
    /\ Cardinality(ProfitableOfType("Sports")) = 3
    /\ \E i, j \in OfType("Sports") : positions[i].state # positions[j].state
    /\ \E k \in DOMAIN market_type_performance :
          market_type_performance[k] =
             [ market_type |-> "Sports", opportunities_found |-> 4,
               profitable_arbs |-> 3, success_rate |-> 75 ]

(* C25: a store failure while an opportunity is upserted is a no-op success:
   it does not reach the caller of the store, and the cycle goes on as the
   same cycle without the failure does, so its positions are created and its
   task log is that of a successful detection. *)
C25_StoreFailureIsNoOp ==
    [][ (IsIterationStep /\ call'.scenario.upsert_fails)
        => /\ "detect_arbitrage" \notin call'.caught
           /\ \E s \in run_once(Database,
                                [call'.scenario EXCEPT !.upsert_fails = FALSE]) :
                 /\ positions' = s.positions
                 /\ task_log' = s.task_log ]_vars

(* A venue yields no data in the iteration: its retries are exhausted, or it
   returns an empty list. *)
NoData(sc) ==
    \/ sc.pm # "data" \/ sc.pm_prices = <<>>
    \/ sc.kalshi # "data" \/ sc.kalshi_prices = <<>>

(* C26: in a cycle in which a venue yields no data, matching is skipped (no
   detect_arbitrage entry is logged), no opportunity is stored and no
   position is created, monitoring still runs (every active position is
   checked at the time of the cycle), and the loop goes on. *)
C26_NoDataNotFatal ==
    [][ (IsIterationStep /\ ~call'.scenario.read_fails /\ NoData(call'.scenario))
        => /\ \A entry \in AppendedEntries : entry.action # "detect_arbitrage"
           /\ arbitrage_opportunities' = arbitrage_opportunities
           /\ DOMAIN positions' = DOMAIN positions
           /\ \A i \in DOMAIN positions :
                 IsActive(positions[i])
                 => positions'[i] = MonitorOne(positions[i], 100, call'.cycle_end)
           /\ loop'.running /\ loop'.ended = "no" ]_vars

(* C26 witness: a cycle in which a venue exhausted its retries, or returned
   an empty list, has checked a position created by an earlier cycle, and the
   loop is running. *)
C26_Witness ==
    /\ call.fn = "iteration"
    /\ NoData(call.scenario)
    /\ loop.running
    /\ \E i \in DOMAIN positions :
          /\ positions[i].created_at < call.at
          /\ positions[i].last_checked = call.cycle_end

----------------------------------------------------------------------------
(* agent.py, generate_dummy_data.py: the demo mode of run_once *)

DemoEvents == 10       \* generate_dummy_market_prices(num_events=10)
DummyExpiryDays == 7   \* random.randint(7, 180), at its lower end

(* pm_{hash(event_name) % 100000} and kal_{...}: the identifier of the
   number-th market a generator or a venue lists. *)
MarketId(prefix, number) == [prefix |-> prefix, number |-> number]

(* The events of generate_dummy_market_prices: samples of the four lists,
   here alternately an economic and a sports event. *)
DummyEvents(num_events) ==
    [i \in 1..num_events |-> IF i % 2 = 1 THEN NameFeds ELSE NameNba]

(* The four documents of one event in generate_dummy_market_prices; the draws
   of random.uniform(0.40, 0.60) are at the middle of their range, and no
   operation of the model reads these prices. *)
DummyPriceDocs(events, t) ==
    LET yes == PriceScale \div 2
        pm(i) == Market(MarketId("pm", i), events[i], yes, PriceScale - yes)
        kalshi(i) == Market(MarketId("kal", i), events[i], yes, PriceScale - yes)
        doc(k) == LET i == ((k - 1) \div 4) + 1
                      part == (k - 1) % 4
                  IN CASE part = 0 -> create_market_price_doc(pm(i), "polymarket", "yes", t)
                       [] part = 1 -> create_market_price_doc(pm(i), "polymarket", "no", t)
                       [] part = 2 -> create_market_price_doc(kalshi(i), "kalshi", "yes", t)
                       [] part = 3 -> create_market_price_doc(kalshi(i), "kalshi", "no", t)
    IN [k \in 1..(4 * Len(events)) |-> doc(k)]

(* generate_dummy_market_prices: the documents are inserted, an error of
   insert_many is printed, and the events are returned either way. *)
generate_dummy_market_prices(s, num_events) ==
    LET events == DummyEvents(num_events)
        inserted == insert_many_unordered(s.market_prices,
                                          DummyPriceDocs(events, s.clock))
    IN [db |-> [s EXCEPT !.market_prices = inserted.docs], events |-> events]

(* The two prices drawn for the i-th event (from 1): "inside" is the lower
   end of both ranges of its tier, "edge" the upper end. *)
DummyDraw(i, draw) ==
    CASE i <= 5 /\ draw = "inside" -> <<42, 50>>
      [] i <= 5 /\ draw = "edge" -> <<46, 54>>
      [] i > 5 /\ i <= 10 /\ draw = "inside" -> <<45, 48>>
      [] i > 5 /\ i <= 10 /\ draw = "edge" -> <<49, 52>>
      [] i > 10 /\ draw = "inside" -> <<48, 49>>
      [] i > 10 /\ draw = "edge" -> <<50, 51>>

(* The documents appended for one event by the loop of
   generate_dummy_arbitrage_opportunities: none when combined is not below
   1.0, else the opportunity with its profit and expiration date. *)
DummyOpportunity(event_name, pm_yes, kalshi_no, drawn, t) ==
    LET combined == pm_yes + kalshi_no IN
    IF ~(combined < PriceScale) THEN {<<>>}
    ELSE { << create_arbitrage_opportunity_doc(
                  [ event_name        |-> event_name,
                    platform_a        |-> "polymarket",
                    platform_a_price  |-> pm_yes,
                    platform_b        |-> "kalshi",
                    platform_b_price  |-> kalshi_no,
                    profit_percentage |-> profit_pct,
                    bet_amount_a      |-> bet_a,
                    bet_amount_b      |-> bet_b ],
                  None, drawn, t)
              @@ [ profit            |-> profit_dollars,
                   expiration_date   |-> Some(t + DummyExpiryDays * SecondsPerDay),
                   days_until_expiry |-> DummyExpiryDays ] >> :
           profit_pct \in RoundSet((PriceScale - combined) * 1000000, combined),
           bet_a \in RoundSet(TotalInvestmentDefault * 100 * pm_yes, combined),
           bet_b \in RoundSet(TotalInvestmentDefault * 100 * kalshi_no, combined),
           profit_dollars \in RoundSet(TotalInvestmentDefault * 100
                                           * (PriceScale - combined), combined) }

(* The list opportunities of generate_dummy_arbitrage_opportunities from the
   i-th of events[:15] on, for the draws of the prices. *)
RECURSIVE DummyOpportunities(_, _, _, _, _)
DummyOpportunities(events, i, draws, drawn, t) ==
    IF i > Min(15, Len(events)) THEN {<<>>}
    ELSE UNION { { head \o rest :
                   rest \in DummyOpportunities(events, i + 1, draws,
                                               drawn + 2 * Len(head), t) } :
                 head \in DummyOpportunity(events[i], DummyDraw(i, draws[i])[1],
                                           DummyDraw(i, draws[i])[2], drawn, t) }

(* The upserts of generate_dummy_arbitrage_opportunities *)
RECURSIVE UpsertEach(_, _)
UpsertEach(docs, opportunities) ==
    IF opportunities = <<>> THEN docs
    ELSE UpsertEach(update_one_upsert(docs, Head(opportunities)), Tail(opportunities))

(* generate_dummy_arbitrage_opportunities(events): the database after it and
   the list it returns. *)
generate_dummy_arbitrage_opportunities(s, events, draws) ==
    { [ db |-> [s EXCEPT !.arbitrage_opportunities = UpsertEach(@, opps),
                         !.uuid = @ + 2 * Len(opps)],
        opps |-> opps ] :
      opps \in DummyOpportunities(events, 1, draws, s.uuid, s.clock) }

(* fetch_and_store_prices(use_dummy_data=True) *)
fetch_and_store_dummy(s, draws, place_orders) ==
    LET generated == generate_dummy_market_prices(
                         Logged(s, "fetch_prices", "start"), DemoEvents)
    IN UNION { { Logged(created, "fetch_prices", "success") :
                 created \in CreatePositions(made.db,
                                             FirstOf(made.opps, DemoPositionCap),
                                             {}, place_orders) } :
               made \in generate_dummy_arbitrage_opportunities(
                            generated.db, generated.events, draws) }

(* run_once(use_dummy_data=True) *)
run_once_dummy(s, draws, place_orders) ==
    UNION { agent_monitor_positions(fetched, FALSE) :
            fetched \in fetch_and_store_dummy(s, draws, place_orders) }

----------------------------------------------------------------------------
(* SpecFlood: cycles of run_once, live and demo, in which the venues list up
   to MaxListed markets that all make an arbitrage *)

MaxListed == 12        \* markets Polymarket lists in one cycle

(* The numbers of markets listed: none, one, and those around the two caps *)
ListedSizes ==
    {0, 1, DemoPositionCap, PositionCap, PositionCap + 1, MaxListed}

(* A cycle in which Polymarket lists n markets of the name Kalshi lists *)
Flood(n, place_orders) ==
    [ Detection EXCEPT
        !.pm_prices = [i \in 1..n |-> Market(MarketId("pm", i), NameFeds, 45, 55)],
        !.kalshi_prices = << Market(MarketId("kal", 1), NameFeds, 47, 53) >>,
        !.place_orders = place_orders ]

(* The draws of a demo cycle: the first n events draw prices that qualify *)
DummyDraws ==
    { [i \in 1..DemoEvents |-> IF i <= n THEN "inside" ELSE "edge"] :
      n \in {0, DemoPositionCap, DemoEvents} }

CycleNumber == IF call.fn = "run_once" THEN call.cycle ELSE 0

(* The database and the clock after a cycle that left s; the next cycle
   begins a second later at the earliest. *)
Cycle(s, mode, insert_fails) ==
    /\ positions' = s.positions
    /\ task_log' = s.task_log
    /\ arbitrage_opportunities' = s.arbitrage_opportunities
    /\ uuid' = s.uuid
    /\ retry_delay' = s.retry_delay
    /\ market_type_performance' = s.market_type_performance
    /\ market_prices' = s.market_prices
    /\ now' = s.clock + 1
    /\ call' = [ fn |-> "run_once", mode |-> mode, cycle |-> CycleNumber + 1,
                 trace |-> s.trace, insert_fails |-> insert_fails,
                 found |-> Len(s.arbitrage_opportunities)
                             - Len(arbitrage_opportunities) ]
    /\ UNCHANGED <<ret, loop, monVars>>

LiveCycle ==
    /\ CycleNumber < MaxIterations
    /\ \E n \in ListedSizes, place_orders \in BOOLEAN :
         \E s \in run_once(Database, Flood(n, place_orders)) : Cycle(s, "live", {})

DemoCycle ==
    /\ CycleNumber < MaxIterations
    /\ \E draws \in DummyDraws, place_orders \in BOOLEAN :
         \E s \in run_once_dummy(Database, draws, place_orders) : Cycle(s, "demo", {})

NextFlood == LiveCycle \/ DemoCycle

SpecFlood == Init /\ [][NextFlood]_vars

(* C27: a cycle of run_once creates at most ten positions in live mode and at
   most eight in demo mode, whatever the number of opportunities found in it:
   it creates one for each of the first ten, or eight, of them. *)
C27_CycleCap ==
    [][ call'.fn = "run_once" /\ call'.cycle = CycleNumber + 1 =>
          LET cap == IF call'.mode = "live" THEN PositionCap ELSE DemoPositionCap
              created == Len(positions') - Len(positions)
          IN /\ created <= cap
             /\ created = Min(cap, call'.found)
      ]_vars

(* A live cycle that found more than ten opportunities and created ten
   positions, after a demo cycle that found ten and created eight *)
C27_Witness ==
    /\ call.fn = "run_once" /\ call.mode = "live" /\ call.cycle = 2
    /\ call.found > PositionCap
    /\ Len(positions) = DemoPositionCap + PositionCap
    /\ Len(arbitrage_opportunities) = DemoEvents + call.found

----------------------------------------------------------------------------
(* arbitrage.py at a finer price resolution: the solver and the matcher on
   prices in units of 1/scale.  At PriceScale no profitable direction has a
   percentage below 1 percent; at FineScale a combined price just below 1 has
   one that round(x, 4) takes to 0. *)

FineScale == 4000000   \* a fine price p stands for p / FineScale

(* round(a * f1 * f2 / den) for a >= 0 and den > 0, as RoundSet does, by long
   division in two steps, so that no intermediate value leaves 32 bits. *)
RoundSetOfProduct(a, f1, f2, den) ==
    LET n1 == a * f1
        n2 == (n1 % den) * f2
        q == (n1 \div den) * f2 + (n2 \div den)
        r == n2 % den
    IN IF 2 * r < den THEN {q}
       ELSE IF 2 * r > den THEN {q + 1}
       ELSE {q, q + 1}

(* Allocation on prices in units of 1/scale *)
AllocationAt(scale, yes_price, no_price, total_investment) ==
    LET combined_prob == yes_price + no_price IN
    { [ platform_a_outcome   |-> "yes",
        platform_a_price     |-> yes_price,
        platform_b_outcome   |-> "no",
        platform_b_price     |-> no_price,
        bet_amount_a         |-> bet_yes,
        bet_amount_b         |-> bet_no,
        total_investment     |-> total_investment,
        guaranteed_payout    |-> payout,
        profit               |-> profit,
        profit_percentage    |-> profit_pct,
        combined_probability |-> combined ] :
      bet_yes \in RoundSetOfProduct(yes_price, 100, total_investment, combined_prob),
      bet_no \in RoundSetOfProduct(no_price, 100, total_investment, combined_prob),
      payout \in RoundSetOfProduct(scale, 100, total_investment, combined_prob),
      profit \in RoundSetOfProduct(scale - combined_prob, 100, total_investment,
                                   combined_prob),
      profit_pct \in RoundSetOfProduct(scale - combined_prob, 1000, 1000,
                                       combined_prob),
      combined \in RoundSetOfProduct(combined_prob, 100, 100, scale) }

(* combined_prob < 1.0 *)
IsProfitableAt(scale, combined_prob) == combined_prob < scale

(* calculate_arbitrage on prices in units of 1/scale *)
calculate_arbitrage_at(scale, yes_price_a, no_price_b, yes_price_b, no_price_a, total_investment) ==
    LET combined_prob_1 == yes_price_a + no_price_b
        combined_prob_2 == yes_price_b + no_price_a
        first == { Returned(Some(d)) :
                     d \in AllocationAt(scale, yes_price_a, no_price_b, total_investment) }
        second == { Returned(Some(d)) :
                      d \in AllocationAt(scale, yes_price_b, no_price_a, total_investment) }
    IN IF IsProfitableAt(scale, combined_prob_1) /\ yes_price_a = 0 THEN {Raised}
       ELSE IF IsProfitableAt(scale, combined_prob_2) /\ yes_price_b = 0 THEN {Raised}
       ELSE IF IsProfitableAt(scale, combined_prob_1)
               /\ ~IsProfitableAt(scale, combined_prob_2)
            THEN first
       ELSE IF IsProfitableAt(scale, combined_prob_1)
            THEN UNION { IF better THEN first ELSE second :
                           better \in FirstIsBetter(yes_price_a, no_price_b,
                                                    yes_price_b, no_price_a) }
       ELSE IF IsProfitableAt(scale, combined_prob_2) THEN second
       ELSE {Returned(None)}

(* abs(arb["platform_a_price"] - pm_market["yes_price"]) < 0.001 *)
LooksLikeDirection1At(scale, arb, pm_market) ==
    LET diff == arb.platform_a_price - pm_market.yes_price
        abs == IF diff < 0 THEN -diff ELSE diff
    IN abs <= (scale - 1) \div 1000

(* LabelOpportunity on prices in units of 1/scale *)
LabelOpportunityAt(scale, arb, pm_market) ==
    LET venues == IF LooksLikeDirection1At(scale, arb, pm_market)
                  THEN <<"polymarket", "kalshi">>
                  ELSE <<"kalshi", "polymarket">>
    IN [ LabelOpportunity(arb, pm_market) EXCEPT !.platform_a = venues[1],
                                                 !.platform_b = venues[2] ]

(* MatchOne on prices in units of 1/scale *)
MatchOneAt(scale, pm_market, kalshi_prices) ==
    LET found == kalshi_lookup(kalshi_prices, normalize_name(pm_market.event_name))
        kalshi_market == Val(found)
    IN IF IsNone(found) THEN {Returned(<<>>)}
       ELSE { IF out.raised THEN Raised
              ELSE IF Qualifies(out.value)
                   THEN Returned(<<LabelOpportunityAt(scale, Val(out.value), pm_market)>>)
                   ELSE Returned(<<>>) :
              out \in calculate_arbitrage_at(scale, pm_market.yes_price,
                                             kalshi_market.no_price,
                                             kalshi_market.yes_price,
                                             pm_market.no_price,
                                             TotalInvestmentDefault) }

(* find_arbitrage_opportunities on prices in units of 1/scale *)
RECURSIVE find_arbitrage_opportunities_at(_, _, _)
find_arbitrage_opportunities_at(scale, polymarket_prices, kalshi_prices) ==
    IF polymarket_prices = <<>> THEN {Returned(<<>>)}
    ELSE UNION
           { IF head.raised THEN {Raised}
             ELSE { IF rest.raised THEN Raised
                    ELSE Returned(head.value \o rest.value) :
                    rest \in find_arbitrage_opportunities_at(
                                 scale, Tail(polymarket_prices), kalshi_prices) } :
             head \in MatchOneAt(scale, Head(polymarket_prices), kalshi_prices) }

(* The solver and the matcher at scale PriceScale are those of SpecArb: the
   outcomes of the call made are the same either way. *)
SameAtPriceScale ==
    /\ IsCalculate =>
         calculate_arbitrage_at(PriceScale, call.args[1], call.args[2], call.args[3],
                                call.args[4], call.args[5])
           = calculate_arbitrage(call.args[1], call.args[2], call.args[3],
                                 call.args[4], call.args[5])
    /\ IsFind =>
         find_arbitrage_opportunities_at(PriceScale, call.args[1], call.args[2])
           = find_arbitrage_opportunities(call.args[1], call.args[2])

----------------------------------------------------------------------------
(* SpecFine: ArbitrageAgent.detect_arbitrage on markets quoted at FineScale *)

Half == FineScale \div 2

(* Polymarket's markets: the yes price is below one half by nothing, by one
   and two units of 1/FineScale, and by a tenth; Kalshi quotes one half both
   ways, so that only yes on Polymarket with no on Kalshi can be profitable. *)
FineShortfalls == {0, 1, 2, FineScale \div 10}

FinePolymarketMarkets ==
    { Market(MarketId("pm", 1), NameFeds, Half - k, Half + k) : k \in FineShortfalls }

FineKalshiMarket == Market(MarketId("kal", 1), NameFeds, Half, Half)

DetectionNumber == IF call.fn = "detect_arbitrage" THEN call.number ELSE 0

DetectFine ==
    /\ DetectionNumber < MaxIterations
    /\ Len(arbitrage_opportunities) < MaxStored
    /\ \E pm_prices \in SeqsUpTo(FinePolymarketMarkets, MaxQuotes) \ {<<>>},
          place_orders \in BOOLEAN :
         \E out \in find_arbitrage_opportunities_at(FineScale, pm_prices,
                                                    << FineKalshiMarket >>) :
           \E s \in DetectWith(Database, {out}, FALSE, {}, place_orders) :
              /\ positions' = s.positions
              /\ task_log' = s.task_log
              /\ arbitrage_opportunities' = s.arbitrage_opportunities
              /\ uuid' = s.uuid
              /\ market_type_performance' = s.market_type_performance
              /\ call' = [ fn |-> "detect_arbitrage",
                           args |-> << pm_prices, << FineKalshiMarket >> >>,
                           result |-> out, number |-> DetectionNumber + 1 ]
    /\ UNCHANGED <<now, ret, retry_delay, loop, market_prices, monVars>>

NextFine == DetectFine

SpecFine == Init /\ [][NextFine]_vars

(* The solver's outcomes for Polymarket market p and Kalshi market k *)
SolverOutcomes(p, k) ==
    calculate_arbitrage_at(FineScale, p.yes_price, k.no_price, k.yes_price,
                           p.no_price, TotalInvestmentDefault)

(* C28: every opportunity find_arbitrage_opportunities returns has a rounded
   profit_percentage above 0 and is a solver result of one of the matched
   pairs; a pair whose solver results all have a rounded percentage of 0 or
   less gives none; the documents stored and the positions created by the
   detection are those of the returned opportunities, so every stored
   document has a profit_percentage above 0. *)
C28_OnlyPositiveProfit ==
    [][ call'.fn = "detect_arbitrage" /\ call'.number = DetectionNumber + 1 =>
          LET pm == call'.args[1]
              kalshi == call'.args[2][1]
              found == call'.result.value
              stored == SubSeq(arbitrage_opportunities',
                               Len(arbitrage_opportunities) + 1,
                               Len(arbitrage_opportunities'))
              created == SubSeq(positions', Len(positions) + 1, Len(positions'))
          IN /\ ~call'.result.raised
             /\ \A i \in DOMAIN found :
                  /\ found[i].profit_percentage > 0
                  /\ \E j \in DOMAIN pm :
                       \E out \in SolverOutcomes(pm[j], kalshi) :
                          /\ ~IsNone(out.value)
                          /\ Val(out.value).profit_percentage = found[i].profit_percentage
                          /\ FromPair(found[i], pm[j], kalshi)
             /\ \A j \in DOMAIN pm :
                  (\A out \in SolverOutcomes(pm[j], kalshi) :
                      IsNone(out.value) \/ Val(out.value).profit_percentage <= 0)
                  => ~\E i \in DOMAIN found : FromPair(found[i], pm[j], kalshi)
             /\ Len(stored) = Len(found)
             /\ \A i \in DOMAIN stored :
                  stored[i].profit_percentage = found[i].profit_percentage
             /\ \A i \in DOMAIN arbitrage_opportunities' :
                  arbitrage_opportunities'[i].profit_percentage > 0
             /\ Len(created) = Min(PositionCap, Len(found))
             /\ \A i \in DOMAIN created :
                  /\ created[i].entry_price_a = found[i].platform_a_price
                  /\ created[i].entry_price_b = found[i].platform_b_price
                  /\ created[i].target_profit = found[i].profit
      ]_vars

(* A detection over a market whose solver result has a percentage that rounds
   to 0, which is dropped, and one whose percentage rounds to 0.0001, which is
   stored and gets a position *)
C28_Witness ==
    /\ call.fn = "detect_arbitrage"
    /\ Len(call.args[1]) = 2
    /\ call.args[1][1].yes_price = Half - 1
    /\ \E out \in SolverOutcomes(call.args[1][1], call.args[2][1]) :
         ~IsNone(out.value) /\ Val(out.value).profit_percentage = 0
    /\ call.args[1][2].yes_price = Half - 2
    /\ Len(call.result.value) = 1
    /\ call.result.value[1].profit_percentage = 1
    /\ Len(arbitrage_opportunities) = 1
    /\ arbitrage_opportunities[1].profit_percentage = 1
    /\ Len(positions) = 1
    /\ positions[1].entry_price_a = Half - 2

----------------------------------------------------------------------------
(* The task log, checked under SpecAgent *)

(* The statuses the callers of log_task pass *)
TaskStatuses == {"start", "success", "failure", "retry"}

(* C29: every step of the agent (recovery at startup, an iteration with its
   fetches, retries, detection, position creation, state updates and
   monitoring, a shutdown) leaves the entries the task log had as they were
   and in place, and each entry it adds has one of the four statuses. *)
C29_TaskLogAppendOnly ==
    [][ /\ Len(task_log') >= Len(task_log)
        /\ SubSeq(task_log', 1, Len(task_log)) = task_log
        /\ \A i \in (Len(task_log) + 1)..Len(task_log') :
             task_log'[i].status \in TaskStatuses ]_vars

(* A log with entries of recovery, retries, detection, position creation, a
   state update, and a shutdown, in which all four statuses occur *)
C29_Witness ==
    /\ \A status \in TaskStatuses :
         \E i \in DOMAIN task_log : task_log[i].status = status
    /\ \A action \in {"recover", "fetch_data", "detect_arbitrage", "create_position",
                      "update_position", "agent_shutdown"} :
         \E i \in DOMAIN task_log : task_log[i].action = action
    /\ \E i, j \in DOMAIN task_log :
         i < j /\ task_log[i].action = "recover" /\ task_log[j].action = "recover"

----------------------------------------------------------------------------
(* SpecStoreSteps: store_arbitrage_opportunities statement by statement, each
   call of the database a step, with the clock running between the steps *)

(* Mutant: the loop of upserts before the expiry pass. *)
StoreSteps_upserts_first == << "upsert", "expire" >>

(* The statements of store_arbitrage_opportunities in program order: the
   update_many of the expiry, then the loop of update_one upserts. *)
StoreSteps == << "expire", "upsert" >>

(* A call of store_arbitrage_opportunities that has not returned *)
Storing ==
    /\ call.fn = "store_arbitrage_opportunities"
    /\ "step" \in DOMAIN call
    /\ call.step <= Len(StoreSteps)

BeginStore ==
    /\ ~Storing
    /\ \E opportunities \in SeqsUpTo(Detected, MaxStored) :
         /\ Len(arbitrage_opportunities) + Len(opportunities) <= MaxStored
         /\ call' = [ fn |-> "store_arbitrage_opportunities",
                      args |-> <<opportunities>>, step |-> 1,
                      pending |-> opportunities, written |-> <<>>,
                      expired |-> FALSE ]
    /\ UNCHANGED <<posVars, storeVars, agentVars, monVars>>

(* cutoff_time = datetime.utcnow() - timedelta(minutes=5), and update_many *)
ExpireStep ==
    /\ Storing
    /\ StoreSteps[call.step] = "expire"
    /\ arbitrage_opportunities' = expire_stale(arbitrage_opportunities, now)
    /\ call' = [call EXCEPT !.step = @ + 1, !.expired = TRUE]
    /\ UNCHANGED <<posVars, uuid, agentVars, monVars>>

(* One pass of the loop: the document is made and upserted; the loop is left
   when no opportunity is pending. *)
UpsertStep ==
    /\ Storing
    /\ StoreSteps[call.step] = "upsert"
    /\ IF call.pending = <<>>
       THEN /\ call' = [call EXCEPT !.step = @ + 1]
            /\ UNCHANGED storeVars
       ELSE LET doc == create_arbitrage_opportunity_doc(Head(call.pending), None,
                                                        uuid, now)
            IN /\ arbitrage_opportunities' =
                      update_one_upsert(arbitrage_opportunities, doc)
               /\ uuid' = uuid + 2
               /\ call' = [call EXCEPT !.pending = Tail(@),
                                       !.written = Append(@, doc.opportunity_id)]
    /\ UNCHANGED <<posVars, agentVars, monVars>>

NextStoreSteps == BeginStore \/ ExpireStep \/ UpsertStep \/ StoreTick

SpecStoreSteps == Init /\ [][NextStoreSteps]_vars

(* The documents of the collection docs that the call in progress wrote *)
WrittenBy(c, docs) ==
    { i \in DOMAIN docs :
        \E k \in DOMAIN c.written : docs[i].opportunity_id = c.written[k] }

(* C30: in a call of store_arbitrage_opportunities the expiry pass runs when
   the call has upserted nothing, every upsert comes after it, and no
   document the call wrote is expired while the call runs. *)
C30_ExpiryBeforeUpserts ==
    [][ (call'.fn = "store_arbitrage_opportunities" /\ "step" \in DOMAIN call') =>
          LET expiry == Storing /\ ~call.expired /\ call'.expired
              upsert == Storing /\ Len(call'.written) = Len(call.written) + 1
          IN /\ expiry =>
                  /\ call.written = <<>> /\ call'.written = <<>>
                  /\ call.pending = call.args[1]
                  /\ arbitrage_opportunities' =
                         expire_stale(arbitrage_opportunities, now)
             /\ upsert =>
                  /\ call.expired
                  /\ Len(arbitrage_opportunities') = Len(arbitrage_opportunities) + 1
             /\ arbitrage_opportunities' # arbitrage_opportunities =>
                  expiry \/ upsert
             /\ \A i \in WrittenBy(call', arbitrage_opportunities') :
                  arbitrage_opportunities'[i].status = "active"
      ]_vars

(* A call that returned after its expiry pass expired the document of an
   earlier call and its loop wrote a document, which is active *)
C30_Witness ==
    /\ call.fn = "store_arbitrage_opportunities"
    /\ "step" \in DOMAIN call /\ ~Storing
    /\ call.expired
    /\ Len(call.written) = 1
    /\ Len(arbitrage_opportunities) = 2
    /\ arbitrage_opportunities[1].status = "expired"
    /\ arbitrage_opportunities[2].status = "active"
    /\ arbitrage_opportunities[2].opportunity_id = call.written[1]

----------------------------------------------------------------------------
(* The order of the steps of one cycle, checked under SpecAgent *)

(* A step that is one pass of the while loop of run(), completed or
   abandoned *)
IsCycleStep ==
    /\ call'.fn \in {"iteration", "interrupted"}
    /\ loop'.cycles = loop.cycles + 1

(* The places of the trace at which the cycle entered monitor_positions *)
MonitorRuns(trace) == { i \in 1..Len(trace) : trace[i] = "monitor_positions" }

(* monitor_positions was entered once, and nothing was entered or inserted
   after it. *)
MonitoredOnceAtEnd(trace) == MonitorRuns(trace) = {Len(trace)} /\ Len(trace) > 0

(* C31: in every coordinator cycle position monitoring runs exactly once, and
   only after the detection and the position creation of that cycle have
   finished: no position is created after monitoring has run in the cycle. *)
C31_MonitorOnceAtEnd ==
    [][IsCycleStep => MonitoredOnceAtEnd(call'.trace)]_vars

(* The time run_once, or the failing read before it, took in the iteration
   recorded in c *)
ElapsedOf(c) == c.cycle_end - c.at

(* C32: iterations of the coordinator never overlap. An iteration starts only
   when the previous one has finished and its sleep has elapsed, and the sleep
   after an iteration is max(0, interval - elapsed processing time): an
   iteration that took longer than the interval is followed by no sleep, and
   the next one starts where it ended. *)
C32_NoOverlap ==
    [][(IsIterationStep /\ loop'.running) =>
          LET interval == Val(loop'.poll_interval)
              elapsed == ElapsedOf(call')
              slept == IF interval > elapsed THEN interval - elapsed ELSE 0
          IN /\ call'.at = now
             /\ call'.cycle_end >= call'.at
             /\ now' = call'.cycle_end + slept
             /\ (call.fn = "iteration" /\ loop.running) =>
                    call'.at >= call.cycle_end
                                  + (IF Val(loop.poll_interval) > ElapsedOf(call)
                                     THEN Val(loop.poll_interval) - ElapsedOf(call)
                                     ELSE 0)]_vars

(* An iteration took longer than its interval, no sleep followed it, and the
   loop is ready for the next one. *)
C32_Witness ==
    /\ call.fn = "iteration"
    /\ loop.running
    /\ ElapsedOf(call) > Val(loop.poll_interval)
    /\ now = call.cycle_end

(* C33: the sleep that follows an iteration uses the adaptive interval derived
   from the performance records as they stand after that iteration's
   recompute: a change of the best success rate caused by the positions
   created in iteration k already affects the sleep between k and k+1. *)
C33_SleepUsesRecomputedInterval ==
    [][(IsIterationStep /\ loop'.running) =>
          now' = call'.cycle_end
                   + Max(0, get_adaptive_poll_interval(market_type_performance')
                              - ElapsedOf(call'))]_vars

----------------------------------------------------------------------------
(* The performance view after a cycle, checked under SpecFlood *)

(* The positions of one market type *)
PositionsOfType(ps, market_type) ==
    { i \in DOMAIN ps : ps[i].market_type = market_type }

(* The stored performance records agree with the positions ps: every market
   type that has a position has a record whose opportunities_found is the
   number of its positions and whose profitable_arbs is the number of them
   with a target_profit above zero. *)
ViewConsistent(performance, ps) ==
    \A i \in DOMAIN ps :
       \E j \in DOMAIN performance :
          /\ performance[j].market_type = ps[i].market_type
          /\ performance[j].opportunities_found =
                 Cardinality(PositionsOfType(ps, ps[i].market_type))
          /\ performance[j].profitable_arbs =
                 Cardinality({ k \in PositionsOfType(ps, ps[i].market_type) :
                                 ps[k].target_profit > 0 })

(* C34: at the end of every coordinator cycle that created at least one
   position, live or demo, the stored performance view is consistent with the
   positions. *)
C34_ViewConsistentAfterCreation ==
    [][(call'.fn = "run_once" /\ Len(positions') > Len(positions)) =>
          ViewConsistent(market_type_performance', positions')]_vars

----------------------------------------------------------------------------
(* Extreme quotes, checked under SpecArb *)

(* C35: for every combination of leg prices in the closed range [0, 1], a yes
   price of exactly 0 included, calculate_arbitrage returns an allocation or
   None without raising, so that one matched pair with an extreme quote
   cannot make find_arbitrage_opportunities fail and drop the opportunities
   of all the other matched pairs of the cycle. *)
C35_ExtremeQuotesDoNotRaise ==
    /\ IsCalculate =>
         ( /\ \A i \in 1..4 : call.args[i] \in 0..PriceScale
           /\ ~call.result.raised )
    /\ IsFind => ~call.result.raised

----------------------------------------------------------------------------
(* The resolution fields of a position, checked under SpecMonitor *)

(* actual_profit and resolved_at of p are both null when p is watching or
   entered, and both set when it is expired. *)
ResolutionMatchesState(p) ==
    IF IsActive(p) THEN IsNone(p.actual_profit) /\ IsNone(p.resolved_at)
    ELSE ~IsNone(p.actual_profit) /\ ~IsNone(p.resolved_at)

(* The step leaves what is set of actual_profit and resolved_at of old in
   new. *)
ResolutionKept(old, new) ==
    /\ ~IsNone(old.actual_profit) => new.actual_profit = old.actual_profit
    /\ ~IsNone(old.resolved_at) => new.resolved_at = old.resolved_at

(* C36: in every reachable state a position has actual_profit and resolved_at
   both null exactly when its state is watching or entered, and both non-null
   exactly when its state is expired; once set, actual_profit and resolved_at
   never change. *)
C36_ResolutionFieldsFinal ==
    [][ /\ \A i \in DOMAIN positions' : ResolutionMatchesState(positions'[i])
        /\ \A i \in DOMAIN positions :
              ResolutionKept(positions[i], positions'[i]) ]_vars

----------------------------------------------------------------------------
(* The status of a stored opportunity, checked under SpecStore *)

(* The expiry pass at t expires document doc *)
IsStale(doc, t) == doc.status = "active" /\ doc.detected_at < t - FreshSeconds

(* C37: an opportunity's status is monotonic: every record is written as
   active, may change to expired only through the stale-expiry step of
   store_arbitrage_opportunities, and once expired is never set back to active
   by a later store_arbitrage_opportunities call. *)
C37_StatusMonotonic ==
    [][ /\ \A i \in DOMAIN arbitrage_opportunities :
             LET old == arbitrage_opportunities[i] IN
             /\ i \in DOMAIN arbitrage_opportunities'
             /\ old.status = "expired" =>
                    arbitrage_opportunities'[i] = old
             /\ (old.status = "active"
                   /\ arbitrage_opportunities'[i].status # "active") =>
                    /\ IsStoreStep
                    /\ IsStale(old, now)
                    /\ arbitrage_opportunities'[i] = [old EXCEPT !.status = "expired"]
        /\ \A j \in DOMAIN arbitrage_opportunities' \ DOMAIN arbitrage_opportunities :
             /\ IsStoreStep
             /\ arbitrage_opportunities'[j].status = "active" ]_vars

(* C37 witness: a store call has detected again an event whose earlier record
   is expired; that record is still expired and the new one is active. *)
C37_Witness ==
    /\ call.fn = "store_arbitrage_opportunities"
    /\ call.at = now
    /\ \E i, j \in DOMAIN arbitrage_opportunities :
          /\ i < j
          /\ arbitrage_opportunities[i].status = "expired"
          /\ arbitrage_opportunities[j].status = "active"
          /\ arbitrage_opportunities[j].detected_at = now
          /\ SameLogical(arbitrage_opportunities[i], arbitrage_opportunities[j])
          /\ \E k \in DOMAIN call.args[1] :
                SameLogical(call.args[1][k], arbitrage_opportunities[i])

----------------------------------------------------------------------------
(* _fetch_with_retry around a fetch_func that never fails, checked under
   SpecFetch *)

(* C38: if the wrapped fetch operation itself never fails, _fetch_with_retry
   always returns its result whatever the injected simulated failures do,
   because none is injected on the last attempt; it does so within
   max_retries attempts and after sleeping at most 1+2+4+8 seconds in
   total. *)
C38_ReliableFetchReturns ==
    (IsFetch /\ call.venue = "reliable") =>
      /\ ~call.result.raised
      /\ ~IsNone(call.result.value)
      /\ Val(call.result.value) \in VenueResults
      /\ Len(call.trace) \in 1..call.max_retries
      /\ call.trace[Len(call.trace)] = "result"
      /\ \A k \in 1..(Len(call.trace) - 1) : call.trace[k] = "raised"
      /\ Len(call.slept) = Len(call.trace) - 1
      /\ SumOfSleeps(call.slept) <= 1 + 2 + 4 + 8

(* C38 witness: the simulated failure was drawn at every attempt but the
   last of a call with the default max_retries; the fifth attempt returned
   the venue's list after 1+2+4+8 seconds of sleep. *)
C38_Witness ==
    /\ IsFetch
    /\ call.venue = "reliable"
    /\ call.max_retries = MaxRetriesDefault
    /\ Len(call.trace) = MaxRetriesDefault
    /\ SumOfSleeps(call.slept) = 1 + 2 + 4 + 8
    /\ call.result = Returned(Some(<<>>))

----------------------------------------------------------------------------
(* SpecConfirm: simulate_order_placement statement by statement on a store
   that monitor_positions scans between its read and its write *)

(* A simulate_order_placement call between its find_one and its update *)
Confirming == call.fn = "simulate_order_placement" /\ call.pc = "write"

(* position = self.db.positions.find_one({"position_id": position_id}): the
   call holds the document as it was when it was read, or None. *)
ConfirmRead ==
    /\ ~Confirming
    /\ \E position_id \in 1..(Len(positions) + 1) :
          call' = [ fn |-> "simulate_order_placement", pc |-> "write",
                    position_id |-> position_id,
                    position |-> IF position_id \in DOMAIN positions
                                 THEN Some(positions[position_id]) ELSE None,
                    at |-> now ]
    /\ UNCHANGED <<posVars, storeVars, agentVars, monVars>>

(* position["state"] in the test of simulate_order_placement: the state of
   the document find_one returned. *)
ReadState(c) == Val(c.position).state

(* The rest of simulate_order_placement: the test of the state that was read
   and update_position_state, whose update_one is filtered by position_id
   alone and writes to the stored document whatever its state has become. *)
ConfirmWrite ==
    /\ Confirming
    /\ IF IsNone(call.position)
       THEN /\ ret' = Ret("confirm", call.position_id, FALSE, 0, FALSE, now)
            /\ UNCHANGED <<positions, task_log>>
       ELSE IF ReadState(call) = "watching"
       THEN /\ Len(task_log) + 2 <= MaxLog
            /\ positions' =
                  [positions EXCEPT
                     ![call.position_id] =
                         update_position_state(@, "entered", None, now)]
            /\ task_log' = log_task(log_task(task_log, "update_position", "success"),
                                    "place_orders", "success")
            /\ ret' = Ret("confirm", call.position_id, TRUE, 0, FALSE, now)
       ELSE /\ ret' = Ret("confirm", call.position_id, FALSE, 0, FALSE, now)
            /\ UNCHANGED <<positions, task_log>>
    /\ call' = [call EXCEPT !.pc = "done"]
    /\ UNCHANGED <<now, storeVars, agentVars, monVars>>

NextConfirm == Create \/ Monitor \/ ConfirmRead \/ ConfirmWrite \/ Tick

SpecConfirm == Init /\ [][NextConfirm]_vars

(* C39: confirmEntry interleaved with monitor on the same position never
   resurrects it: if monitor expires a watching position between
   confirmEntry's read of the state and its write, the write leaves the
   position expired; no position ends in state entered with actual_profit and
   resolved_at set, and none is expired a second time by a later monitor. *)
C39_NoResurrection ==
    [][ /\ (Confirming /\ call'.pc = "done") =>
              \A i \in DOMAIN positions :
                 positions[i].state = "expired" => positions'[i] = positions[i]
        /\ \A i \in DOMAIN positions' :
              positions'[i].state = "entered" =>
                 /\ IsNone(positions'[i].actual_profit)
                 /\ IsNone(positions'[i].resolved_at)
        /\ \A i \in DOMAIN positions :
              ~IsNone(positions[i].resolved_at) =>
                 positions'[i].resolved_at = positions[i].resolved_at ]_vars

----------------------------------------------------------------------------
(* SpecFaults: live cycles of run_once in which the insert of some of the
   positions fails *)

(* The places, in the list of the opportunities found, of those whose
   create_position_from_opportunity raises: none, one in the middle, the first
   and the last under the cap, the first beyond the cap *)
FailingInserts == { {}, {2}, {1, PositionCap}, {PositionCap + 1} }

(* The numbers of markets listed: fewer than the cap, and more *)
FaultySizes == {3, PositionCap + 1}

FaultyCycle ==
    /\ CycleNumber < MaxIterations
    /\ \E n \in FaultySizes, insert_fails \in FailingInserts,
          place_orders \in BOOLEAN :
         \E s \in run_once(Database,
                           [Flood(n, place_orders) EXCEPT
                               !.insert_fails = insert_fails]) :
            Cycle(s, "live", insert_fails)

NextFaults == FaultyCycle

SpecFaults == Init /\ [][NextFaults]_vars

(* The create_position entries a step appended to the task log, in order *)
CreationEntries ==
    SelectSeq(SubSeq(task_log', Len(task_log) + 1, Len(task_log')),
              LAMBDA e : e.action = "create_position")

(* C40: position creation failures are isolated per opportunity: when
   create_position_from_opportunity fails for one opportunity of a cycle, a
   create_position failure entry is logged, no position is stored for it, the
   remaining opportunities of the cycle (up to the cap) still get their
   positions, and the cycle still proceeds to monitoring. *)
C40_CreationFailuresIsolated ==
    [][ (call'.fn = "run_once" /\ call'.cycle = CycleNumber + 1) =>
          LET tried == 1..Min(PositionCap, call'.found)
              failed == call'.insert_fails \cap tried
          IN /\ Len(CreationEntries) = Cardinality(tried)
             /\ \A k \in tried :
                   CreationEntries[k].status =
                       IF k \in failed THEN "failure" ELSE "success"
             /\ Len(positions') - Len(positions)
                    = Cardinality(tried) - Cardinality(failed)
             /\ \A i \in DOMAIN positions :
                   positions'[i].position_id = positions[i].position_id
             /\ MonitoredOnceAtEnd(call'.trace) ]_vars

(* C40 witness: a cycle found more opportunities than the cap, the inserts of
   the first and the tenth failed, and the eight between them got their
   positions. *)
C40_Witness ==
    /\ call.fn = "run_once"
    /\ call.found > PositionCap
    /\ call.insert_fails = {1, PositionCap}
    /\ Len(positions) >= PositionCap - 2
    /\ Len(SelectSeq(task_log, LAMBDA e : e.action = "create_position"
                                            /\ e.status = "failure")) >= 2
    /\ call.trace[Len(call.trace)] = "monitor_positions"

====
